---- MODULE Spec2Model ----
(***************************************************************************)
(* A model of src/npm.ts: the npm import resolver and cache.               *)
(*                                                                         *)
(* Text is modelled as TLA+ strings, processed character by character with *)
(* Len, SubSeq and \o, with 1-based positions (JavaScript's are 0-based).  *)
(* JavaScript's undefined is the string Undefined, which is also what a    *)
(* template literal prints for it.                                         *)
(*                                                                         *)
(* The event loop is modelled as follows.  Every action is one synchronous *)
(* run of JavaScript between two awaits.  A promise reaction that the code *)
(* registers with .then (the registry clean-ups) is a job in `jobs`; jobs  *)
(* run before any other action, as microtasks run before the next task.    *)
(***************************************************************************)
EXTENDS Naturals, Sequences, FiniteSets, TLC

\* ------------------------------------------------------------------ text

Undefined == "undefined"

\* The characters of s at positions from..to, those that exist.
Sub(s, from, to) ==
  LET a == IF from < 1 THEN 1 ELSE from
      b == IF to > Len(s) THEN Len(s) ELSE to
  IN  IF a > b THEN "" ELSE SubSeq(s, a, b)

CharAt(s, i) == Sub(s, i, i)

StartsWith(s, p) == Len(s) >= Len(p) /\ Sub(s, 1, Len(p)) = p

EndsWith(s, p) == Len(s) >= Len(p) /\ Sub(s, Len(s) - Len(p) + 1, Len(s)) = p

\* String.prototype.slice(from) with a 0-based `from`: drops the first `from` characters.
SliceFrom(s, from) == Sub(s, from + 1, Len(s))

\* The 1-based position of the first `ch` in s at or after position `from`, 0 if none.
RECURSIVE IndexOf(_, _, _)
IndexOf(s, ch, from) ==
  IF from > Len(s) THEN 0
  ELSE IF CharAt(s, from) = ch THEN from
  ELSE IndexOf(s, ch, from + 1)

\* String.prototype.split(sep) for a one-character separator.
RECURSIVE Split(_, _)
Split(s, sep) ==
  LET i == IndexOf(s, sep, 1)
  IN  IF i = 0 THEN <<s>>
      ELSE <<Sub(s, 1, i - 1)>> \o Split(Sub(s, i + 1, Len(s)), sep)

\* Array.prototype.join(sep).
RECURSIVE Join(_, _)
Join(parts, sep) ==
  IF Len(parts) = 0 THEN ""
  ELSE IF Len(parts) = 1 THEN parts[1]
  ELSE parts[1] \o sep \o Join(Tail(parts), sep)

Digits == <<"0", "1", "2", "3", "4", "5", "6", "7", "8", "9">>

IsDigit(c) == \E d \in 1..10 : Digits[d] = c

DigitValue(c) == (CHOOSE d \in 1..10 : Digits[d] = c) - 1

\* The position after the longest run of digits of s that starts at position i.
RECURSIVE SkipDigits(_, _)
SkipDigits(s, i) ==
  IF i <= Len(s) /\ IsDigit(CharAt(s, i)) THEN SkipDigits(s, i + 1) ELSE i

\* The number a string of digits denotes.
RECURSIVE ParseNat(_)
ParseNat(s) ==
  IF Len(s) = 0 THEN 0
  ELSE 10 * ParseNat(Sub(s, 1, Len(s) - 1)) + DigitValue(CharAt(s, Len(s)))

\* ------------------------------------------------------------ specifiers

\* parseNpmSpecifier: name[@range][/path]; a scoped name takes two segments.
parseNpmSpecifier(specifier) ==
  LET parts == Split(specifier, "/")
      scoped == StartsWith(specifier, "@")
      namerange == IF scoped
                   THEN parts[1] \o "/" \o (IF Len(parts) >= 2 THEN parts[2] ELSE "")
                   ELSE parts[1]
      rest == IF scoped
              THEN (IF Len(parts) >= 2 THEN SubSeq(parts, 3, Len(parts)) ELSE <<>>)
              ELSE Tail(parts)
      \* namerange.indexOf("@", 1) > 0: an "@" that is not the leading character
      ranged == IndexOf(namerange, "@", 2)
  IN  [name  |-> IF ranged > 0 THEN Sub(namerange, 1, ranged - 1) ELSE namerange,
       range |-> IF ranged > 0 THEN Sub(namerange, ranged + 1, Len(namerange)) ELSE Undefined,
       path  |-> IF Len(rest) > 0 THEN Join(rest, "/") ELSE Undefined]

\* A value is truthy in JavaScript when it is neither undefined nor "".
Truthy(s) == s /= Undefined /\ s /= ""

\* The formatting with the range behind the path.
formatNpmSpecifier_RangeLast(spec) ==
  spec.name \o (IF Truthy(spec.path) THEN "/" \o spec.path ELSE "")
            \o (IF Truthy(spec.range) THEN "@" \o spec.range ELSE "")

\* Lines 34-36: the name, then @ and the range if it is truthy, then / and the path
\* if it is truthy.
formatNpmSpecifier(spec) ==
  spec.name \o (IF Truthy(spec.range) THEN "@" \o spec.range ELSE "")
            \o (IF Truthy(spec.path) THEN "/" \o spec.path ELSE "")

\* resolveNpmSpecifier: strips the /_npm/ prefix and turns a trailing /+esm.js into /+esm.
resolveNpmSpecifier(path) ==
  LET a == IF StartsWith(path, "/_npm/") THEN SliceFrom(path, 6) ELSE path
  IN  IF EndsWith(a, "/+esm.js") THEN Sub(a, 1, Len(a) - 3) ELSE a

\* --------------------------------------------------------------- semver

\* The test /^\d+\.\d+\.\d+([-+].*)?$/ of resolveNpmVersion.
IsExactVersion(range) ==
  LET a == SkipDigits(range, 1)
      b == SkipDigits(range, a + 1)
      c == SkipDigits(range, b + 1)
  IN  /\ a > 1
      /\ CharAt(range, a) = "."
      /\ b > a + 1
      /\ CharAt(range, b) = "."
      /\ c > b + 1
      /\ (c = Len(range) + 1 \/ CharAt(range, c) \in {"-", "+"})

\* major.minor.patch of a version without prerelease or build tags, as numbers.
VersionTuple(v) ==
  LET p == Split(v, ".")
  IN  <<ParseNat(p[1]), ParseNat(p[2]), ParseNat(p[3])>>

\* semver's order: a is a later version than b.
VersionGt(a, b) ==
  LET x == VersionTuple(a)
      y == VersionTuple(b)
  IN  \/ x[1] > y[1]
      \/ x[1] = y[1] /\ x[2] > y[2]
      \/ x[1] = y[1] /\ x[2] = y[2] /\ x[3] > y[3]

\* Whether a text is one to three runs of digits separated by dots: M, M.m or M.m.p.
IsPartialVersion(text) ==
  LET p == Split(text, ".")
  IN  /\ Len(p) <= 3
      /\ \A i \in 1..Len(p) : Len(p[i]) > 0 /\ SkipDigits(p[i], 1) = Len(p[i]) + 1

\* semver's satisfies(version, range) for the ranges the model draws: "*", a caret
\* range ^M, ^M.m or ^M.m.p with M >= 1 (the versions of major M from M.m.p on), an
\* exact version; any other text (a dist-tag such as "latest") is no valid range,
\* and satisfies answers false for it.
satisfies(version, range) ==
  IF range = "*" THEN TRUE
  ELSE IF StartsWith(range, "^") /\ IsPartialVersion(SliceFrom(range, 1))
       THEN LET p == Split(SliceFrom(range, 1), ".")
                low == Join(<<p[1], IF Len(p) >= 2 THEN p[2] ELSE "0",
                              IF Len(p) >= 3 THEN p[3] ELSE "0">>, ".")
            IN  /\ VersionTuple(version)[1] = ParseNat(p[1])
                /\ ~VersionGt(low, version)
  ELSE IF IsExactVersion(range) THEN VersionTuple(version) = VersionTuple(range)
  ELSE FALSE

\* One step of an insertion sort, descending.
RECURSIVE InsertDesc(_, _)
InsertDesc(v, list) ==
  IF Len(list) = 0 THEN <<v>>
  ELSE IF VersionGt(list[1], v) THEN <<list[1]>> \o InsertDesc(v, Tail(list))
  ELSE <<v>> \o list

\* semver's rsort: the list in descending version order.
RECURSIVE rsort(_)
rsort(list) ==
  IF Len(list) = 0 THEN <<>> ELSE InsertDesc(list[1], rsort(Tail(list)))

\* The list of a finite set of distinct versions in descending order, as rsort
\* leaves the versions pushed while reading a directory.
RECURSIVE SortDesc(_)
SortDesc(set) ==
  IF set = {} THEN <<>>
  ELSE LET top == CHOOSE v \in set : \A w \in set : w = v \/ VersionGt(v, w)
       IN  <<top>> \o SortDesc(set \ {top})

\* ---------------------------------------------------------------- bounds

\* The remote lookups (inner promises of resolveNpmVersion) one run may start.
MaxVersionRequests == 2

\* The processes that call resolveNpmVersion; each makes any number of calls in turn.
VersionCallers == {"v1", "v2"}

\* The package names, the ranges and the published versions the calls draw from.
VersionNames == {"d3"}
VersionRanges == {Undefined, "^1", "^2", "latest", "1.0.0"}
Published == {"1.0.0", "1.2.0", "2.0.0"}

\* The package directories <name>@<version> that may lie under
\* <root>/.observablehq/cache/_npm when the process starts.
InitialDirs == {"d3@1.0.0", "d3@2.0.0"}

\* The CDN fetches (inner promises of populateNpmCache) one run may start.
MaxCacheRequests == 3

\* The processes that call populateNpmCache; each makes any number of calls in turn.
CacheCallers == {"p1", "p2"}

\* The project roots and the cache paths the calls draw from: a module, the manifest
\* of its package, and a path without the /_npm/ prefix.
Roots == {"docs"}
CachePaths == {"/_npm/d3@1.0.0/+esm.js", "/_npm/d3@1.0.0/package.json", "/npm/d3@1.0.0/+esm"}

\* The cache paths whose file may be on disk when the process starts.
InitialPaths == {"/_npm/d3@1.0.0/package.json"}

\* The string literals in import positions that the source of one module has.
MaxImports == 2

\* The callers of resolveNpmImports.
ImportCallers == {"r1", "r2"}

\* ----------------------------------------------------------------- state

VARIABLES
  npmVersionCache,     \* the promise of the version index: "unset", "pending", "fulfilled", "rejected"
  cache,               \* the Map it resolves to: name -> versions, <<>> where the Map has no entry
  npmVersionRequests,  \* the Map href -> promise (an index of versionPromises)
  versionPromises,     \* the inner promises of resolveNpmVersion that a call still holds, by number
  versionRequests,     \* how many remote lookups were started so far
  versionCalls,        \* the resolveNpmVersion calls, one per caller
  npmRequests,         \* the Map path -> promise (a number of cachePromises)
  cachePromises,       \* the inner promises of populateNpmCache that are pending or still held
  cacheRequests,       \* how many CDN fetches were started so far
  cacheCalls,          \* the populateNpmCache calls from outside, one per caller
  files,               \* the files on disk under .observablehq/cache: path -> "partial" or "complete"
  resolver,            \* one getDependencyResolver call and the uses of the function it returns
  npmImportsCache,     \* the Map path -> promise (a number of importPromises), never cleared
  importPromises,      \* the inner promises of resolveNpmImports, by number
  importRequests,      \* how many of them were started so far
  importCalls,         \* the resolveNpmImports calls, one per caller
  roundTrip,           \* a specifier text, what parseNpmSpecifier and formatNpmSpecifier made of it
  rewrite,             \* a source, a resolve function and what rewriteNpmImports made of them
  dirs,                \* the package directories on disk under .observablehq/cache/_npm
  mkdirs,              \* the mkdir calls of line 230, started and not awaited
  jobs                 \* the promise reactions (microtasks) that are due

versionVars == <<npmVersionCache, cache, npmVersionRequests, versionPromises, versionRequests,
                 versionCalls, mkdirs>>

cacheVars == <<npmRequests, cachePromises, cacheRequests, cacheCalls, files>>

\* The import-graph memo and the calls of resolveNpmImports.
importVars == <<npmImportsCache, importPromises, importRequests, importCalls>>

\* The applications of the pure functions on text.
textVars == <<roundTrip, rewrite>>

vars == <<versionVars, cacheVars, importVars, textVars, resolver, dirs, jobs>>

Fulfilled(value) == [state |-> "fulfilled", value |-> value]
Rejected(message) == [state |-> "rejected", value |-> message]
NoResult == [state |-> "none", value |-> Undefined]

\* The manifest of a call that has read none.
NoManifest == [dependencies |-> <<>>, devDependencies |-> <<>>, peerDependencies |-> <<>>]

IdleResolver ==
  [pc |-> "idle", path |-> Undefined, imports |-> {}, pkg |-> NoManifest, dependencies |-> {},
   todo |-> {}, requested |-> <<>>, resolutions |-> <<>>, resolved |-> <<>>]

IdleImportCall ==
  [pc |-> "idle", root |-> Undefined, path |-> Undefined, promise |-> 0, result |-> NoResult]

IdleRoundTrip == [pc |-> "idle"]

IdleRewrite == [pc |-> "idle"]

IdleVersionCall ==
  [pc |-> "idle", name |-> Undefined, range |-> Undefined, versions |-> <<>>, promise |-> 0,
   result |-> NoResult]

\* --------------------------------------------------------- version index

\* initializeNpmVersionCache: the entries of the cache directory grouped by name, each
\* group sorted descending.  An entry of a scope directory is read as <scope>/<entry>.
initializeNpmVersionCache(entries) ==
  [name \in VersionNames |->
     SortDesc({parseNpmSpecifier(e).range : e \in {d \in entries : parseNpmSpecifier(d).name = name}})]

\* A scan that keeps the last match instead of the first.
RECURSIVE FirstSatisfying_Last(_, _)
FirstSatisfying_Last(versions, range) ==
  IF Len(versions) = 0 THEN Undefined
  ELSE IF ~Truthy(range) \/ satisfies(versions[Len(versions)], range) THEN versions[Len(versions)]
  ELSE FirstSatisfying_Last(SubSeq(versions, 1, Len(versions) - 1), range)

\* The scan of line 217: the first version of the list that satisfies the range
\* (the first, if the range is absent), Undefined if there is none.
RECURSIVE FirstSatisfying(_, _)
FirstSatisfying(versions, range) ==
  IF Len(versions) = 0 THEN Undefined
  ELSE IF ~Truthy(range) \/ satisfies(versions[1], range) THEN versions[1]
  ELSE FirstSatisfying(Tail(versions), range)

\* The URL of line 218.
VersionHref(name, range) ==
  "https://data.jsdelivr.com/v1/packages/npm/" \o name \o "/resolved"
    \o (IF Truthy(range) THEN "?specifier=" \o range ELSE "")

\* The update without the sort.
UpdatedVersions_Unsorted(versions, version) ==
  IF Len(versions) > 0 THEN versions \o <<version>> ELSE <<version>>

\* Line 229: the list stored for the name once the remote lookup answered, from the
\* list `versions` the call read at line 216.
UpdatedVersions(versions, version) ==
  IF Len(versions) > 0 THEN rsort(versions \o <<version>>) ELSE <<version>>

\* The versions the metadata endpoint may answer for a range: one that satisfies a
\* semver range, any published one for a dist-tag or no range.
RemoteVersions(range) ==
  IF Truthy(range) /\ \E v \in Published : satisfies(v, range)
  THEN {v \in Published : satisfies(v, range)}
  ELSE IF Truthy(range) /\ (range = "*" \/ StartsWith(range, "^") \/ IsExactVersion(range))
  THEN {}
  ELSE Published

\* ------------------------------------------------------ resolveNpmVersion

\* The call with the index awaited before the test for an exact version.
resolveNpmVersion_InitFirst(c, name, range) ==
  /\ jobs = <<>>
  /\ versionCalls[c].pc = "idle"
  /\ npmVersionCache' = IF npmVersionCache = "unset" THEN "pending" ELSE npmVersionCache
  /\ versionCalls' = [versionCalls EXCEPT ![c] =
        [pc |-> IF Truthy(range) /\ IsExactVersion(range) THEN "done" ELSE "awaitCache",
         name |-> name, range |-> range, versions |-> <<>>, promise |-> 0,
         result |-> IF Truthy(range) /\ IsExactVersion(range) THEN Fulfilled(range) ELSE NoResult]]
  /\ UNCHANGED <<cache, npmVersionRequests, versionPromises, versionRequests, dirs, mkdirs, jobs>>
  /\ UNCHANGED <<cacheVars, resolver, importVars, textVars>>

\* Lines 212-215: the call up to its first await.  An exact version returns at once;
\* otherwise the index promise is created if it is not there yet, and awaited.
resolveNpmVersion(c, name, range) ==
  /\ jobs = <<>>
  /\ versionCalls[c].pc = "idle"
  /\ IF Truthy(range) /\ IsExactVersion(range)
     THEN /\ versionCalls' = [versionCalls EXCEPT ![c] =
                [pc |-> "done", name |-> name, range |-> range, versions |-> <<>>,
                 promise |-> 0, result |-> Fulfilled(range)]]
          /\ UNCHANGED npmVersionCache
     ELSE /\ versionCalls' = [versionCalls EXCEPT ![c] =
                [pc |-> "awaitCache", name |-> name, range |-> range, versions |-> <<>>,
                 promise |-> 0, result |-> NoResult]]
          /\ npmVersionCache' = IF npmVersionCache = "unset" THEN "pending" ELSE npmVersionCache
  /\ UNCHANGED <<cache, npmVersionRequests, versionPromises, versionRequests, dirs, mkdirs, jobs>>
  /\ UNCHANGED <<cacheVars, resolver, importVars, textVars>>

\* Lines 182-208: the directory scan completes, with the index or (a readdir error
\* other than ENOENT) with a rejection that every later call receives too.
InitializeDone ==
  /\ jobs = <<>>
  /\ npmVersionCache = "pending"
  /\ \/ /\ npmVersionCache' = "fulfilled"
        /\ cache' = initializeNpmVersionCache(dirs)
     \/ /\ npmVersionCache' = "rejected"
        /\ UNCHANGED cache
  /\ UNCHANGED <<npmVersionRequests, versionPromises, versionRequests, versionCalls, dirs, mkdirs, jobs>>
  /\ UNCHANGED <<cacheVars, resolver, importVars, textVars>>

\* A lookup that never finds the registered promise.
VersionRequestFor_NoCoalesce(href) == 0

\* Lines 219-220 and 234: the promise registered for the href, 0 if none.
VersionRequestFor(href) ==
  IF href \in DOMAIN npmVersionRequests THEN npmVersionRequests[href] ELSE 0

\* Lines 215-235: the call resumes with the index.  It returns the first cached
\* version that satisfies the range, else joins the pending lookup of the same href,
\* else starts a lookup (the fetch is issued and the promise registered in the same run).
ResumeWithCache(c) ==
  LET call == versionCalls[c]
      versions == cache[call.name]
      hit == FirstSatisfying(versions, call.range)
      href == VersionHref(call.name, call.range)
      pending == VersionRequestFor(href)
  IN  /\ jobs = <<>>
      /\ call.pc = "awaitCache"
      /\ npmVersionCache \in {"fulfilled", "rejected"}
      /\ IF npmVersionCache = "rejected"
         THEN /\ versionCalls' = [versionCalls EXCEPT ![c].pc = "done",
                                    ![c].result = Rejected("readdir failed")]
              /\ UNCHANGED <<npmVersionRequests, versionPromises, versionRequests>>
         ELSE IF hit /= Undefined
         THEN /\ versionCalls' = [versionCalls EXCEPT ![c].pc = "done",
                                    ![c].versions = versions,
                                    ![c].result = Fulfilled(hit)]
              /\ UNCHANGED <<npmVersionRequests, versionPromises, versionRequests>>
         ELSE IF pending /= 0
         THEN /\ versionCalls' = [versionCalls EXCEPT ![c].pc = "awaitRequest",
                                    ![c].versions = versions,
                                    ![c].promise = pending]
              /\ UNCHANGED <<npmVersionRequests, versionPromises, versionRequests>>
         ELSE /\ versionRequests < MaxVersionRequests
              /\ versionRequests' = versionRequests + 1
              /\ versionPromises' =
                    [p \in DOMAIN versionPromises \cup {versionRequests + 1} |->
                       IF p = versionRequests + 1
                       THEN [href |-> href, name |-> call.name, range |-> call.range,
                             versions |-> versions, result |-> NoResult]
                       ELSE versionPromises[p]]
              /\ npmVersionRequests' =
                    [h \in DOMAIN npmVersionRequests \cup {href} |->
                       IF h = href THEN versionRequests + 1 ELSE npmVersionRequests[h]]
              /\ versionCalls' = [versionCalls EXCEPT ![c].pc = "awaitRequest",
                                    ![c].versions = versions,
                                    ![c].promise = versionRequests + 1]
      /\ UNCHANGED <<npmVersionCache, cache, dirs, mkdirs, jobs, cacheVars, resolver, importVars, textVars>>

\* The reactions registered on inner promise p, due once it settles, in the order of
\* their registration: the clean-up of line 233, then the calls that returned p
\* (lines 220 and 235), which registered when their own async function returned.
VersionSettleJobs(p, href) ==
  <<[kind |-> "deleteVersionRequest", key |-> href, promise |-> p],
    [kind |-> "resumeVersionCalls", key |-> href, promise |-> p]>>

\* Lines 223-231: the metadata endpoint answers lookup p.  An unsuccessful response
\* or one without a version rejects the promise; a version is stored in the index,
\* its directory is created without waiting, and the promise fulfils.
VersionResponse(p) ==
  LET request == versionPromises[p]
      spec(version) == formatNpmSpecifier([name |-> request.name, range |-> version, path |-> Undefined])
  IN  /\ jobs = <<>>
      /\ request.result.state = "none"
      /\ \/ /\ versionPromises' = [versionPromises EXCEPT ![p].result =
                                      Rejected("unable to fetch: " \o request.href)]
            /\ UNCHANGED <<cache, mkdirs>>
         \/ /\ versionPromises' = [versionPromises EXCEPT ![p].result =
                  Rejected("unable to resolve version: " \o
                     formatNpmSpecifier([name |-> request.name, range |-> request.range, path |-> Undefined]))]
            /\ UNCHANGED <<cache, mkdirs>>
         \/ \E version \in RemoteVersions(request.range) :
              /\ cache' = [cache EXCEPT ![request.name] = UpdatedVersions(request.versions, version)]
              /\ mkdirs' = mkdirs \cup {spec(version)}
              /\ versionPromises' = [versionPromises EXCEPT ![p].result = Fulfilled(version)]
      /\ jobs' = jobs \o VersionSettleJobs(p, request.href)
      /\ UNCHANGED <<npmVersionCache, npmVersionRequests, versionRequests, versionCalls, dirs, cacheVars, resolver, importVars, textVars>>

\* Line 233: the reaction npmVersionRequests.delete(href) runs.
DeleteVersionRequest ==
  /\ jobs /= <<>>
  /\ Head(jobs).kind = "deleteVersionRequest"
  /\ npmVersionRequests' = [h \in DOMAIN npmVersionRequests \ {Head(jobs).key} |-> npmVersionRequests[h]]
  /\ jobs' = Tail(jobs)
  /\ UNCHANGED <<npmVersionCache, cache, versionPromises, versionRequests, versionCalls, dirs, mkdirs>>
  /\ UNCHANGED <<cacheVars, resolver, importVars, textVars>>

\* Lines 220 and 235: the calls that returned promise p settle as it did.  No call
\* holds the promise afterwards, and it is dropped.
ResumeWithVersion ==
  LET p == Head(jobs).promise
  IN  /\ jobs /= <<>>
      /\ Head(jobs).kind = "resumeVersionCalls"
      /\ versionCalls' =
            [c \in VersionCallers |->
               IF versionCalls[c].pc = "awaitRequest" /\ versionCalls[c].promise = p
               THEN [versionCalls[c] EXCEPT !.pc = "done", !.result = versionPromises[p].result]
               ELSE versionCalls[c]]
      /\ versionPromises' = [q \in DOMAIN versionPromises \ {p} |-> versionPromises[q]]
      /\ jobs' = Tail(jobs)
      /\ UNCHANGED <<npmVersionCache, cache, npmVersionRequests, versionRequests, dirs, mkdirs, cacheVars, resolver, importVars, textVars>>

\* The caller has its answer and is free to call again.
VersionReturn(c) ==
  /\ jobs = <<>>
  /\ versionCalls[c].pc = "done"
  /\ versionCalls' = [versionCalls EXCEPT ![c] = IdleVersionCall]
  /\ UNCHANGED <<npmVersionCache, cache, npmVersionRequests, versionPromises, versionRequests,
                 dirs, mkdirs, jobs, cacheVars, resolver, importVars, textVars>>

\* Line 230: a mkdir that was started completes and the directory is on disk.
MkdirDone ==
  /\ jobs = <<>>
  /\ \E d \in mkdirs :
       /\ mkdirs' = mkdirs \ {d}
       /\ dirs' = dirs \cup {d}
  /\ UNCHANGED <<npmVersionCache, cache, npmVersionRequests, versionPromises, versionRequests,
                 versionCalls, jobs, cacheVars, resolver, importVars, textVars>>

\* ------------------------------------------------------ populateNpmCache

\* Line 78: join(root, ".observablehq", "cache", path).
FilePath(root, path) == root \o "/.observablehq/cache" \o path

\* The existence test that finds no file at all.
existsSync_Never(filePath) == FALSE

\* Lines 79 and 147: existsSync is true of a file whether its content is complete or not.
existsSync(filePath) == filePath \in DOMAIN files

\* The package directory <name>@<range> that mkdir(dirname(filePath), {recursive: true})
\* of line 89 creates under _npm, if the path lies in one.
PackageDirs(path) ==
  LET spec == parseNpmSpecifier(SliceFrom(path, 6))
  IN  IF spec.path = Undefined THEN {}
      ELSE {formatNpmSpecifier([name |-> spec.name, range |-> spec.range, path |-> Undefined])}

\* Line 157: the cache path of the manifest of the package that the module at `path` is in.
ManifestPath(path) ==
  LET spec == parseNpmSpecifier(resolveNpmSpecifier(path))
  IN  "/_npm/" \o spec.name \o "@" \o spec.range \o "/package.json"

\* A lookup that never finds the registered promise.
CacheRequestFor_NoCoalesce(path) == 0

\* Lines 80-81 and 100: the promise registered for the path, 0 if none.
CacheRequestFor(path) ==
  IF path \in DOMAIN npmRequests THEN npmRequests[path] ELSE 0

\* Lines 82-86 and 100: a new inner promise, which has issued its fetch and awaits it.
\* It holds filePath, and with it the package directory that line 89 will make.
NewCachePromise(root, path) ==
  [path |-> path, root |-> root, pc |-> "fetch", javascript |-> FALSE, waitsFor |-> 0,
   packageDirs |-> PackageDirs(path), result |-> NoResult]

WithPromise(promises, p, promise) ==
  [q \in DOMAIN promises \cup {p} |-> IF q = p THEN promise ELSE promises[q]]

WithRequest(requests, path, p) ==
  [k \in DOMAIN requests \cup {path} |-> IF k = path THEN p ELSE requests[k]]

\* The reactions that keep the entry of a promise that rejected.
CacheSettleJobs_OnlyOnSuccess(p, path, state) ==
  IF state = "rejected"
  THEN <<[kind |-> "resumeCacheCalls", key |-> path, promise |-> p]>>
  ELSE <<[kind |-> "deleteRequest", key |-> path, promise |-> p],
         [kind |-> "resumeCacheCalls", key |-> path, promise |-> p]>>

\* The reactions registered on inner promise p, due once it settles (in `state`), in
\* the order of their registration: the clean-up of line 99, which runs after a
\* fulfilment and after a rejection alike, then the calls that returned p (lines 81
\* and 101), which registered when their own async function returned.
CacheSettleJobs(p, path, state) ==
  <<[kind |-> "deleteRequest", key |-> path, promise |-> p],
    [kind |-> "resumeCacheCalls", key |-> path, promise |-> p]>>

\* Inner promise p settles with `result`.
Settled(promises, p, result) ==
  [promises EXCEPT ![p].pc = "settled", ![p].result = result]

\* The populateNpmCache call with the tests of lines 77-81 in another order: the
\* registry is consulted before the disk.
populateNpmCache_RegistryFirst(c, root, path) ==
  LET filePath == FilePath(root, path)
      pending == CacheRequestFor(path)
      call == [pc |-> "await", root |-> root, path |-> path, promise |-> 0, result |-> NoResult]
  IN  /\ jobs = <<>>
      /\ cacheCalls[c].pc = "idle"
      /\ IF ~StartsWith(path, "/_npm/")
         THEN /\ cacheCalls' = [cacheCalls EXCEPT ![c] =
                    [call EXCEPT !.pc = "done", !.result = Rejected("invalid npm path: " \o path)]]
              /\ UNCHANGED <<npmRequests, cachePromises, cacheRequests>>
         ELSE IF pending /= 0
         THEN /\ cacheCalls' = [cacheCalls EXCEPT ![c] = [call EXCEPT !.promise = pending]]
              /\ UNCHANGED <<npmRequests, cachePromises, cacheRequests>>
         ELSE IF existsSync(filePath)
         THEN /\ cacheCalls' = [cacheCalls EXCEPT ![c] =
                    [call EXCEPT !.pc = "done", !.result = Fulfilled(filePath)]]
              /\ UNCHANGED <<npmRequests, cachePromises, cacheRequests>>
         ELSE /\ cacheRequests < MaxCacheRequests
              /\ cacheRequests' = cacheRequests + 1
              /\ cachePromises' = WithPromise(cachePromises, cacheRequests + 1, NewCachePromise(root, path))
              /\ npmRequests' = WithRequest(npmRequests, path, cacheRequests + 1)
              /\ cacheCalls' = [cacheCalls EXCEPT ![c] = [call EXCEPT !.promise = cacheRequests + 1]]
      /\ UNCHANGED <<files, dirs, jobs, versionVars, resolver, importVars, textVars>>

\* Lines 76-101: a populateNpmCache call by c, up to its return.  A path without
\* the prefix throws; a file that exists is returned; a pending fetch of the path is
\* joined; otherwise a fetch is started and registered in the same run.
PopulateCall(c, root, path) ==
  LET filePath == FilePath(root, path)
      pending == CacheRequestFor(path)
      call == [pc |-> "await", root |-> root, path |-> path, promise |-> 0, result |-> NoResult]
  IN  /\ jobs = <<>>
      /\ cacheCalls[c].pc = "idle"
      /\ IF ~StartsWith(path, "/_npm/")
         THEN /\ cacheCalls' = [cacheCalls EXCEPT ![c] =
                    [call EXCEPT !.pc = "done", !.result = Rejected("invalid npm path: " \o path)]]
              /\ UNCHANGED <<npmRequests, cachePromises, cacheRequests>>
         ELSE IF existsSync(filePath)
         THEN /\ cacheCalls' = [cacheCalls EXCEPT ![c] =
                    [call EXCEPT !.pc = "done", !.result = Fulfilled(filePath)]]
              /\ UNCHANGED <<npmRequests, cachePromises, cacheRequests>>
         ELSE IF pending /= 0
         THEN /\ cacheCalls' = [cacheCalls EXCEPT ![c] = [call EXCEPT !.promise = pending]]
              /\ UNCHANGED <<npmRequests, cachePromises, cacheRequests>>
         ELSE /\ cacheRequests < MaxCacheRequests
              /\ cacheRequests' = cacheRequests + 1
              /\ cachePromises' = WithPromise(cachePromises, cacheRequests + 1, NewCachePromise(root, path))
              /\ npmRequests' = WithRequest(npmRequests, path, cacheRequests + 1)
              /\ cacheCalls' = [cacheCalls EXCEPT ![c] = [call EXCEPT !.promise = cacheRequests + 1]]
      /\ UNCHANGED <<files, dirs, jobs>>

\* A populateNpmCache call from outside.
populateNpmCache(c, root, path) ==
  /\ PopulateCall(c, root, path)
  /\ UNCHANGED <<versionVars, resolver, importVars, textVars>>

\* Lines 86-88: the CDN answers the fetch of promise p: unsuccessfully, which rejects
\* p, or with a body whose content type is JavaScript or not; mkdir is then awaited.
FetchResponse(p) ==
  LET promise == cachePromises[p]
      href == "https://cdn.jsdelivr.net/npm/" \o resolveNpmSpecifier(promise.path)
  IN  /\ jobs = <<>>
      /\ promise.pc = "fetch"
      /\ \/ /\ cachePromises' = Settled(cachePromises, p, Rejected("unable to fetch: " \o href))
            /\ jobs' = CacheSettleJobs(p, promise.path, "rejected")
         \/ /\ \E javascript \in BOOLEAN :
                 cachePromises' = [cachePromises EXCEPT ![p].pc = "mkdir", ![p].javascript = javascript]
            /\ UNCHANGED jobs
      /\ UNCHANGED <<npmRequests, cacheRequests, cacheCalls, files, dirs, versionVars, resolver, importVars, textVars>>

\* Lines 89-91 and 95: the directory of the file is there; the body is read next.
CacheMkdirDone(p) ==
  /\ jobs = <<>>
  /\ cachePromises[p].pc = "mkdir"
  /\ dirs' = dirs \cup cachePromises[p].packageDirs
  /\ cachePromises' = [cachePromises EXCEPT ![p].pc = "body"]
  /\ UNCHANGED <<npmRequests, cacheRequests, cacheCalls, files, jobs, versionVars, resolver, importVars, textVars>>

\* Lines 91-95 and 118-157: the body has arrived.  Other content is handed to writeFile.
\* JavaScript goes to getDependencyResolver, which parses it (a parse error rejects p)
\* and collects its dependencies; with none left to resolve the rewritten source is
\* handed to writeFile, otherwise the manifest of the package is populated by a
\* populateNpmCache call of its own (lines 76-101) and awaited.
BodyRead(p) ==
  LET promise == cachePromises[p]
      manifest == ManifestPath(promise.path)
      pending == CacheRequestFor(manifest)
  IN  /\ jobs = <<>>
      /\ promise.pc = "body"
      /\ \/ /\ ~promise.javascript
            /\ cachePromises' = [cachePromises EXCEPT ![p].pc = "write"]
            /\ UNCHANGED <<npmRequests, cacheRequests, jobs>>
         \/ /\ promise.javascript
            /\ \/ /\ cachePromises' = Settled(cachePromises, p, Rejected("SyntaxError"))
                  /\ jobs' = CacheSettleJobs(p, promise.path, "rejected")
                  /\ UNCHANGED <<npmRequests, cacheRequests>>
               \/ /\ cachePromises' = [cachePromises EXCEPT ![p].pc = "write"]
                  /\ UNCHANGED <<npmRequests, cacheRequests, jobs>>
               \/ /\ IF existsSync(FilePath(promise.root, manifest))
                     THEN /\ cachePromises' = [cachePromises EXCEPT ![p].pc = "readManifest"]
                          /\ UNCHANGED <<npmRequests, cacheRequests>>
                     ELSE IF pending /= 0
                     THEN /\ cachePromises' = [cachePromises EXCEPT ![p].pc = "awaitManifest",
                                                                    ![p].waitsFor = pending]
                          /\ UNCHANGED <<npmRequests, cacheRequests>>
                     ELSE /\ cacheRequests < MaxCacheRequests
                          /\ cacheRequests' = cacheRequests + 1
                          /\ cachePromises' =
                               WithPromise([cachePromises EXCEPT ![p].pc = "awaitManifest",
                                                                 ![p].waitsFor = cacheRequests + 1],
                                           cacheRequests + 1, NewCachePromise(promise.root, manifest))
                          /\ npmRequests' = WithRequest(npmRequests, manifest, cacheRequests + 1)
                  /\ UNCHANGED jobs
      /\ UNCHANGED <<cacheCalls, files, dirs, versionVars, resolver, importVars, textVars>>

\* The resolution with the source written to its file before the manifest is read,
\* so that a failure leaves a part of the file on disk.
ReadManifest_WritesFirst(p) ==
  LET promise == cachePromises[p]
      filePath == FilePath(promise.root, promise.path)
  IN  /\ jobs = <<>>
      /\ promise.pc \in {"readManifest", "resolveImports"}
      /\ \/ /\ cachePromises' = Settled(cachePromises, p, Rejected("unable to resolve version"))
            /\ jobs' = CacheSettleJobs(p, promise.path, "rejected")
            /\ files' = [f \in DOMAIN files \cup {filePath} |->
                           IF f = filePath THEN "partial" ELSE files[f]]
         \/ /\ cachePromises' = [cachePromises EXCEPT ![p].pc =
                  IF promise.pc = "readManifest" THEN "resolveImports" ELSE "write"]
            /\ UNCHANGED <<jobs, files>>
      /\ UNCHANGED <<npmRequests, cacheRequests, cacheCalls, dirs, versionVars, resolver, importVars, textVars>>

\* Lines 158-170: the manifest is read and parsed (either may fail, which rejects p),
\* and the dependencies that have a range are resolved with resolveNpmImport, which
\* may fail too; then the rewritten source is handed to writeFile.
ReadManifest(p) ==
  LET promise == cachePromises[p]
  IN  /\ jobs = <<>>
      /\ promise.pc \in {"readManifest", "resolveImports"}
      /\ \/ /\ cachePromises' = Settled(cachePromises, p,
                  Rejected(IF promise.pc = "readManifest" THEN "manifest unreadable"
                           ELSE "unable to resolve version"))
            /\ jobs' = CacheSettleJobs(p, promise.path, "rejected")
         \/ /\ cachePromises' = [cachePromises EXCEPT ![p].pc =
                  IF promise.pc = "readManifest" THEN "resolveImports" ELSE "write"]
            /\ UNCHANGED jobs
      /\ UNCHANGED <<npmRequests, cacheRequests, cacheCalls, files, dirs, versionVars, resolver, importVars, textVars>>

\* Lines 93 and 95: writeFile opens the file, which exists from then on with part of
\* its content, or fails to, which rejects p.
WriteOpen(p) ==
  LET promise == cachePromises[p]
      filePath == FilePath(promise.root, promise.path)
  IN  /\ jobs = <<>>
      /\ promise.pc = "write"
      /\ \/ /\ files' = [f \in DOMAIN files \cup {filePath} |-> IF f = filePath THEN "partial" ELSE files[f]]
            /\ cachePromises' = [cachePromises EXCEPT ![p].pc = "writing"]
            /\ UNCHANGED jobs
         \/ /\ cachePromises' = Settled(cachePromises, p, Rejected("EACCES"))
            /\ jobs' = CacheSettleJobs(p, promise.path, "rejected")
            /\ UNCHANGED files
      /\ UNCHANGED <<npmRequests, cacheRequests, cacheCalls, dirs, versionVars, resolver, importVars, textVars>>

\* Lines 93-97: writeFile completes and p fulfils with the file path, or fails after
\* writing a part (the disk is full), which rejects p and leaves the part on disk.
WriteDone(p) ==
  LET promise == cachePromises[p]
      filePath == FilePath(promise.root, promise.path)
  IN  /\ jobs = <<>>
      /\ promise.pc = "writing"
      /\ \/ /\ files' = [files EXCEPT ![filePath] = "complete"]
            /\ cachePromises' = Settled(cachePromises, p, Fulfilled(filePath))
            /\ jobs' = CacheSettleJobs(p, promise.path, "fulfilled")
         \/ /\ cachePromises' = Settled(cachePromises, p, Rejected("ENOSPC"))
            /\ jobs' = CacheSettleJobs(p, promise.path, "rejected")
            /\ UNCHANGED files
      /\ UNCHANGED <<npmRequests, cacheRequests, cacheCalls, dirs, versionVars, resolver, importVars, textVars>>

\* Line 99: the reaction npmRequests.delete(path) runs.
DeleteRequest ==
  /\ jobs /= <<>>
  /\ Head(jobs).kind = "deleteRequest"
  /\ npmRequests' = [k \in DOMAIN npmRequests \ {Head(jobs).key} |-> npmRequests[k]]
  /\ jobs' = Tail(jobs)
  /\ UNCHANGED <<cachePromises, cacheRequests, cacheCalls, files, dirs, versionVars, resolver, importVars, textVars>>

\* The numbers of a finite set in ascending order.
RECURSIVE Ascending(_)
Ascending(set) ==
  IF set = {} THEN <<>>
  ELSE LET least == CHOOSE n \in set : \A m \in set : n <= m
       IN  <<least>> \o Ascending(set \ {least})

\* The settle jobs of the promises of a sequence, which all rejected.
RECURSIVE RejectionJobs(_, _)
RejectionJobs(promises, ps) ==
  IF Len(ps) = 0 THEN <<>>
  ELSE CacheSettleJobs(ps[1], promises[ps[1]].path, "rejected") \o RejectionJobs(promises, Tail(ps))

\* Lines 81, 101 and 157: everything that awaits promise q resumes.  A call from
\* outside settles as q did.  An inner promise that awaits q as its manifest goes on
\* to read the manifest if q fulfilled and rejects as q did if q rejected.  Nothing
\* holds q afterwards, and it is dropped.
ResumeCacheCalls ==
  LET q == Head(jobs).promise
      result == cachePromises[q].result
      waiting == {p \in DOMAIN cachePromises :
                    cachePromises[p].pc = "awaitManifest" /\ cachePromises[p].waitsFor = q}
      resumed == [p \in DOMAIN cachePromises \ {q} |->
                    IF p \in waiting
                    THEN IF result.state = "fulfilled"
                         THEN [cachePromises[p] EXCEPT !.pc = "readManifest", !.waitsFor = 0]
                         ELSE [cachePromises[p] EXCEPT !.pc = "settled", !.waitsFor = 0, !.result = result]
                    ELSE cachePromises[p]]
  IN  /\ jobs /= <<>>
      /\ Head(jobs).kind = "resumeCacheCalls"
      /\ cacheCalls' =
           [c \in DOMAIN cacheCalls |->
              IF cacheCalls[c].pc = "await" /\ cacheCalls[c].promise = q
              THEN [cacheCalls[c] EXCEPT !.pc = "done", !.result = result]
              ELSE cacheCalls[c]]
      /\ cachePromises' = resumed
      /\ jobs' = Tail(jobs) \o (IF result.state = "rejected"
                                THEN RejectionJobs(cachePromises, Ascending(waiting))
                                ELSE <<>>)
      /\ UNCHANGED <<npmRequests, cacheRequests, files, dirs, versionVars, resolver, importVars, textVars>>

\* The caller has its answer and is free to call again.
CacheReturn(c) ==
  /\ jobs = <<>>
  /\ cacheCalls[c].pc = "done"
  /\ cacheCalls' = [cacheCalls EXCEPT ![c] =
        [pc |-> "idle", root |-> Undefined, path |-> Undefined, promise |-> 0, result |-> NoResult]]
  /\ UNCHANGED <<npmRequests, cachePromises, cacheRequests, files, dirs, jobs, versionVars, resolver, importVars, textVars>>

\* -------------------------------------------------- getDependencyResolver

\* The module whose dependencies are resolved: its cache path and the values of the
\* string literals that its source has in import, export and import.meta.resolve
\* positions.
ModulePaths ==
  {"/_npm/arquero@5.0.0/+esm.js", "/_npm/@uwdata/mosaic-core@0.1.0/+esm.js",
   "/_npm/@duckdb/duckdb-wasm@1.28.0/+esm.js", "/_npm/d3@1.0.0/+esm.js"}
ImportValues ==
  {"/npm/apache-arrow@12.0.0/+esm", "/npm/@duckdb/duckdb-wasm@1.27.0/+esm",
   "/npm/apache-arrow@^12/+esm", "/npm/arquero@5.0.0/dist/x.js", "./chunk.js"}

\* The sections of a manifest: each declares nothing or a range for one package.
ManifestSections ==
  {<<>>} \cup {[n \in {name} |-> range] :
                 name \in {"apache-arrow", "@duckdb/duckdb-wasm"}, range \in {"^11.0.0"}}
Manifests ==
  [dependencies : ManifestSections, devDependencies : ManifestSections,
   peerDependencies : ManifestSections]

\* The versions resolveNpmVersion may answer for a range that is no exact version.
ResolvedVersions == {"17.0.0"}

\* The package directories that may be on disk when the module is resolved.
ResolverDirs == {"apache-arrow@12.0.0"}

\* pkg.section?.[name]
Declared(section, name) == IF name \in DOMAIN section THEN section[name] ELSE Undefined

\* a ?? b
Coalesce(a, b) == IF a /= Undefined THEN a ELSE b

\* The collection without the test of line 146 for the module's own name.
IsDependency_WithSelf(name, value) ==
  LET dep == parseNpmSpecifier(SliceFrom(value, 5))
  IN  /\ StartsWith(value, "/npm/")
      /\ (dep.name \o "@" \o dep.range) \notin dirs

\* Lines 142-150: whether findImportSource adds the value of a literal to the
\* dependencies of the module named `name`.
IsDependency(name, value) ==
  LET dep == parseNpmSpecifier(SliceFrom(value, 5))
  IN  /\ StartsWith(value, "/npm/")
      /\ dep.name /= name
      /\ (dep.name \o "@" \o dep.range) \notin dirs

\* The range with the manifest asked before the override table.
DependencyRange_ManifestFirst(name, depName, pkg) ==
  Coalesce(Coalesce(Coalesce(Declared(pkg.dependencies, depName),
                             Declared(pkg.devDependencies, depName)),
                    Declared(pkg.peerDependencies, depName)),
           IF name \in {"arquero", "@uwdata/mosaic-core", "@duckdb/duckdb-wasm"} /\ depName = "apache-arrow"
           THEN "latest"
           ELSE IF name = "@uwdata/mosaic-core" /\ depName = "@duckdb/duckdb-wasm"
           THEN "1.28.0"
           ELSE Undefined)

\* The range with "latest" where neither the override table nor the manifest has one.
DependencyRange_DefaultLatest(name, depName, pkg) ==
  Coalesce(DependencyRange_ManifestFirst(name, depName, pkg), "latest")

\* Lines 161-166: the range a dependency of the module named `name` is resolved with.
DependencyRange(name, depName, pkg) ==
  IF name \in {"arquero", "@uwdata/mosaic-core", "@duckdb/duckdb-wasm"} /\ depName = "apache-arrow"
  THEN "latest"
  ELSE IF name = "@uwdata/mosaic-core" /\ depName = "@duckdb/duckdb-wasm"
  THEN "1.28.0"
  ELSE Coalesce(Coalesce(Declared(pkg.dependencies, depName),
                         Declared(pkg.devDependencies, depName)),
                Declared(pkg.peerDependencies, depName))

\* Line 168: the specifier handed to resolveNpmImport for a dependency and its range.
DependencySpecifier(dependency, range) ==
  LET dep == parseNpmSpecifier(SliceFrom(dependency, 5))
  IN  dep.name \o "@" \o range \o "/" \o (IF dep.path = Undefined THEN "+esm" ELSE dep.path)

\* Lines 239-251: the name, range and path resolveNpmImport works with.
ImportDefaults(specifier) ==
  LET spec == parseNpmSpecifier(specifier)
  IN  [name  |-> spec.name,
       range |-> IF spec.range /= Undefined THEN spec.range
                 ELSE IF spec.name = "@duckdb/duckdb-wasm" THEN "1.28.0"
                 ELSE IF spec.name = "parquet-wasm" THEN "0.5.0"
                 ELSE Undefined,
       path  |-> IF spec.path /= Undefined THEN spec.path
                 ELSE IF spec.name = "mermaid" THEN "dist/mermaid.esm.min.mjs/+esm"
                 ELSE IF spec.name = "echarts" THEN "dist/echarts.esm.min.js"
                 ELSE "+esm"]

\* Line 214 and lines 215-231: what resolveNpmVersion may answer for a range: the range
\* itself if it is an exact version, else a version of the index or of the registry.
VersionAnswers(range) ==
  IF Truthy(range) /\ IsExactVersion(range) THEN {range} ELSE ResolvedVersions

\* Line 252: the cache path resolveNpmImport returns once the version is resolved.
resolveNpmImport(specifier, version) ==
  LET spec == ImportDefaults(specifier)
  IN  "/_npm/" \o spec.name \o "@" \o version \o "/"
        \o (IF EndsWith(spec.path, "+esm") THEN spec.path \o ".js" ELSE spec.path)

\* relativePath of ./path.js: the target as a path relative to the directory of the source.
RECURSIVE CommonPrefix(_, _)
CommonPrefix(a, b) ==
  IF Len(a) > 0 /\ Len(b) > 0 /\ a[1] = b[1] THEN 1 + CommonPrefix(Tail(a), Tail(b)) ELSE 0

RECURSIVE Repeat(_, _)
Repeat(text, n) == IF n = 0 THEN "" ELSE text \o Repeat(text, n - 1)

relativePath(source, target) ==
  LET all == Split(source, "/")
      from == SubSeq(all, 1, Len(all) - 1)
      parts == Split(target, "/")
      to == SubSeq(parts, 1, Len(parts) - 1)
      i == CommonPrefix(from, to)
      k == Len(from) - i
  IN  (IF k > 0 THEN Repeat("../", k) ELSE "./") \o Join(SubSeq(parts, i + 1, Len(parts)), "/")

\* Lines 173-175: the cache path the returned function puts in the place of a
\* specifier: the resolution if there is one, else the prefix /npm/ swapped for
\* /_npm/, with ".js" after a trailing /+esm.  Other specifiers stay as they are.
ResolveTarget(resolutions, specifier) ==
  IF ~StartsWith(specifier, "/npm/") THEN specifier
  ELSE IF specifier \in DOMAIN resolutions THEN resolutions[specifier]
  ELSE "/_npm/" \o SliceFrom(specifier, 5) \o (IF EndsWith(specifier, "/+esm") THEN ".js" ELSE "")

\* Lines 172-177: the function getDependencyResolver returns.
ResolveSpecifier(path, resolutions, specifier) ==
  IF ~StartsWith(specifier, "/npm/") THEN specifier
  ELSE relativePath(path, ResolveTarget(resolutions, specifier))

ModuleName(path) == parseNpmSpecifier(resolveNpmSpecifier(path)).name

\* Lines 118-157: the source is parsed (a parse error rejects the call) and its
\* dependencies are collected; if there are any, the manifest is populated and awaited.
CollectDependencies ==
  LET found == {value \in resolver.imports : IsDependency(ModuleName(resolver.path), value)}
  IN  /\ resolver.pc = "start"
      /\ \/ resolver' = [resolver EXCEPT !.pc = "rejected"]
         \/ resolver' = [resolver EXCEPT !.pc = IF found = {} THEN "ready" ELSE "manifest",
                                          !.dependencies = found, !.todo = found]
      /\ UNCHANGED <<versionVars, cacheVars, importVars, textVars, dirs, jobs>>

\* Lines 157-158: the manifest is populated, read and parsed; any of these may fail.
ManifestLoaded ==
  /\ resolver.pc = "manifest"
  /\ \/ resolver' = [resolver EXCEPT !.pc = "rejected"]
     \/ \E pkg \in Manifests : resolver' = [resolver EXCEPT !.pc = "resolving", !.pkg = pkg]
  /\ UNCHANGED <<versionVars, cacheVars, importVars, textVars, dirs, jobs>>

\* Lines 159-169: one turn of the loop over the dependencies.  A dependency without
\* a range is skipped; another is resolved with resolveNpmImport, whose failure
\* rejects the call and whose answer is recorded in the resolution map.
ResolveDependency ==
  /\ resolver.pc = "resolving"
  /\ resolver.todo /= {}
  /\ \E dependency \in resolver.todo :
       LET depName == parseNpmSpecifier(SliceFrom(dependency, 5)).name
           range == DependencyRange(ModuleName(resolver.path), depName, resolver.pkg)
           specifier == DependencySpecifier(dependency, range)
           rest == resolver.todo \ {dependency}
           next == IF rest = {} THEN "ready" ELSE "resolving"
       IN  IF range = Undefined
           THEN resolver' = [resolver EXCEPT !.todo = rest, !.pc = next]
           ELSE \/ resolver' = [resolver EXCEPT !.pc = "rejected",
                                  !.requested = WithRequest(resolver.requested, dependency, specifier)]
                \/ \E version \in VersionAnswers(ImportDefaults(specifier).range) :
                     resolver' = [resolver EXCEPT !.todo = rest, !.pc = next,
                        !.requested = WithRequest(resolver.requested, dependency, specifier),
                        !.resolutions = WithRequest(resolver.resolutions, dependency,
                                                    resolveNpmImport(specifier, version))]
  /\ UNCHANGED <<versionVars, cacheVars, importVars, textVars, dirs, jobs>>

\* Lines 63-66 and 172-177: rewriteNpmImports hands the value of a literal of the
\* source to the returned function.
ApplyResolver ==
  /\ resolver.pc = "ready"
  /\ \E specifier \in resolver.imports \ DOMAIN resolver.resolved :
       resolver' = [resolver EXCEPT !.resolved =
          WithRequest(resolver.resolved, specifier,
                      [target |-> ResolveTarget(resolver.resolutions, specifier),
                       result |-> ResolveSpecifier(resolver.path, resolver.resolutions, specifier)])]
  /\ UNCHANGED <<versionVars, cacheVars, importVars, textVars, dirs, jobs>>

\* ------------------------------------------------------ resolveNpmImports

\* The paths resolveNpmImports is called with: a module, a stylesheet, and a path
\* without the cache prefix.
ImportPaths == {"/_npm/d3@1.0.0/+esm.js", "/_npm/d3@1.0.0/style.css", "/npm/d3@1.0.0/+esm"}

\* What findImports may answer for a source that parses, as the names it refers to.
ImportReferences == {<<>>, <<"./chunk.js">>}

\* Line 268: /\.(m|c)?js$/i, for paths in lower case.
IsJavaScriptPath(path) ==
  EndsWith(path, ".js") \/ EndsWith(path, ".mjs") \/ EndsWith(path, ".cjs")

\* Lines 263-264: the promise the memo has for the path, 0 if none.
ImportMemoFor(path) ==
  IF path \in DOMAIN npmImportsCache THEN npmImportsCache[path] ELSE 0

\* The answer of a resolveNpmImports call, which has returned the promise or thrown.
ImportCall(root, path, promise, result) ==
  [pc |-> IF result = NoResult THEN "await" ELSE "done", root |-> root, path |-> path,
   promise |-> promise, result |-> result]

\* The call without the test of line 262.
resolveNpmImports_NoPrefixTest(c, root, path) ==
  LET memo == ImportMemoFor(path)
      i == importRequests + 1
  IN  /\ jobs = <<>>
      /\ importCalls[c].pc = "idle"
      /\ IF memo /= 0
         THEN /\ importCalls' = [importCalls EXCEPT ![c] = ImportCall(root, path, memo, NoResult)]
              /\ UNCHANGED <<npmImportsCache, importPromises, importRequests, cacheVars, dirs, jobs>>
         ELSE /\ PopulateCall(path, root, path)
              /\ importRequests' = i
              /\ importPromises' = WithPromise(importPromises, i,
                    [path |-> path, root |-> root, pc |-> "populate", failure |-> "none",
                     result |-> NoResult])
              /\ npmImportsCache' = WithRequest(npmImportsCache, path, i)
              /\ importCalls' = [importCalls EXCEPT ![c] = ImportCall(root, path, i, NoResult)]
      /\ UNCHANGED <<versionVars, resolver, textVars>>

\* Lines 261-278: a resolveNpmImports call by c, up to its return.  A path without
\* the prefix throws; a path the memo has gets the promise of the memo; otherwise
\* the inner function starts, which calls populateNpmCache (the call is kept in
\* cacheCalls under the path, there being one such call per path) and awaits it, and
\* its promise is put in the memo in the same run.
resolveNpmImports(c, root, path) ==
  LET memo == ImportMemoFor(path)
      i == importRequests + 1
  IN  /\ jobs = <<>>
      /\ importCalls[c].pc = "idle"
      /\ IF ~StartsWith(path, "/_npm/")
         THEN /\ importCalls' = [importCalls EXCEPT ![c] =
                    ImportCall(root, path, 0, Rejected("invalid npm path: " \o path))]
              /\ UNCHANGED <<npmImportsCache, importPromises, importRequests, cacheVars, dirs, jobs>>
         ELSE IF memo /= 0
         THEN /\ importCalls' = [importCalls EXCEPT ![c] = ImportCall(root, path, memo, NoResult)]
              /\ UNCHANGED <<npmImportsCache, importPromises, importRequests, cacheVars, dirs, jobs>>
         ELSE /\ PopulateCall(path, root, path)
              /\ importRequests' = i
              /\ importPromises' = WithPromise(importPromises, i,
                    [path |-> path, root |-> root, pc |-> "populate", failure |-> "none",
                     result |-> NoResult])
              /\ npmImportsCache' = WithRequest(npmImportsCache, path, i)
              /\ importCalls' = [importCalls EXCEPT ![c] = ImportCall(root, path, i, NoResult)]
      /\ UNCHANGED <<versionVars, resolver, textVars>>

\* Inner promise i settles: with a list of references, or with the empty list after
\* the failure of the named step, which the catch of line 272 turns into a warning.
ImportsSettled(promises, i, failure, references) ==
  [promises EXCEPT ![i].pc = "settled", ![i].failure = failure,
                   ![i].result = Fulfilled(references)]

\* Lines 267-269 and 272-275: the populateNpmCache call of inner promise i has its
\* answer.  An error is caught and the promise fulfils with the empty list; so it
\* does for a path that is not JavaScript; otherwise the file is read.
ImportsPopulated(i) ==
  LET promise == importPromises[i]
      populated == cacheCalls[promise.path]
  IN  /\ jobs = <<>>
      /\ promise.pc = "populate"
      /\ populated.pc = "done"
      /\ importPromises' =
           IF populated.result.state = "rejected"
           THEN ImportsSettled(importPromises, i, "populate", <<>>)
           ELSE IF ~IsJavaScriptPath(promise.path)
           THEN ImportsSettled(importPromises, i, "none", <<>>)
           ELSE [importPromises EXCEPT ![i].pc = "read"]
      /\ UNCHANGED <<npmImportsCache, importRequests, importCalls, cacheVars, dirs, jobs,
                     versionVars, resolver, textVars>>

\* The read with an error of parseProgram thrown on to the caller.
ImportsRead_Rethrow(i) ==
  /\ jobs = <<>>
  /\ importPromises[i].pc = "read"
  /\ \/ importPromises' = ImportsSettled(importPromises, i, "read", <<>>)
     \/ importPromises' = [importPromises EXCEPT ![i].pc = "settled", ![i].failure = "parse",
                                                 ![i].result = Rejected("SyntaxError")]
     \/ \E references \in ImportReferences :
          importPromises' = ImportsSettled(importPromises, i, "none", references)
  /\ UNCHANGED <<npmImportsCache, importRequests, importCalls, cacheVars, dirs, jobs,
                 versionVars, resolver, textVars>>

\* Lines 269-275: readFile has its answer.  If it failed, or parseProgram or
\* findImports throws, the promise fulfils with the empty list; otherwise with the
\* references that findImports found.
ImportsRead(i) ==
  /\ jobs = <<>>
  /\ importPromises[i].pc = "read"
  /\ \/ importPromises' = ImportsSettled(importPromises, i, "read", <<>>)
     \/ importPromises' = ImportsSettled(importPromises, i, "parse", <<>>)
     \/ \E references \in ImportReferences :
          importPromises' = ImportsSettled(importPromises, i, "none", references)
  /\ UNCHANGED <<npmImportsCache, importRequests, importCalls, cacheVars, dirs, jobs,
                 versionVars, resolver, textVars>>

\* The return with the entry of a promise that settled after a failure taken out
\* of the memo.
ImportsReturn_ForgetFailure(c) ==
  LET promise == importPromises[importCalls[c].promise]
  IN  /\ jobs = <<>>
      /\ importCalls[c].pc = "await"
      /\ promise.pc = "settled"
      /\ importCalls' = [importCalls EXCEPT ![c].pc = "done", ![c].result = promise.result]
      /\ npmImportsCache' =
           IF promise.failure = "none" THEN npmImportsCache
           ELSE [k \in DOMAIN npmImportsCache \ {promise.path} |-> npmImportsCache[k]]
      /\ UNCHANGED <<importPromises, importRequests, cacheVars, dirs, jobs,
                     versionVars, resolver, textVars>>

\* Lines 264 and 278: a call that returned the promise has its answer once the
\* promise has settled.
ImportsReturn(c) ==
  LET promise == importPromises[importCalls[c].promise]
  IN  /\ jobs = <<>>
      /\ importCalls[c].pc = "await"
      /\ promise.pc = "settled"
      /\ importCalls' = [importCalls EXCEPT ![c].pc = "done", ![c].result = promise.result]
      /\ UNCHANGED <<npmImportsCache, importPromises, importRequests, cacheVars, dirs, jobs,
                     versionVars, resolver, textVars>>

\* The caller has its answer and is free to call again.
ImportsCallEnd(c) ==
  /\ jobs = <<>>
  /\ importCalls[c].pc = "done"
  /\ importCalls' = [importCalls EXCEPT ![c] = IdleImportCall]
  /\ UNCHANGED <<npmImportsCache, importPromises, importRequests, cacheVars, dirs, jobs,
                 versionVars, resolver, textVars>>

\* ------------------------------------------------------- specifier texts

\* The parts a specifier text is written from; Undefined stands for a part that the
\* text does not have, "" for one that it has with nothing in it (d3@/+esm, d3@7/).
SpecifierNames == {"d3", "a", "@observablehq/plot"}
SpecifierRanges == {Undefined, "", "7", "^1.2.3", "latest", "1.0.0"}
SpecifierPaths == {Undefined, "", "+esm", "dist/d3.min.js"}

\* The text with the parts it has: name, then @ and the range, then / and the path.
SpecifierText(name, range, path) ==
  name \o (IF range = Undefined THEN "" ELSE "@" \o range)
       \o (IF path = Undefined THEN "" ELSE "/" \o path)

\* Lines 23-32 applied to the text.
ParseText ==
  /\ roundTrip.pc = "text"
  /\ roundTrip' = [roundTrip EXCEPT !.pc = "parsed", !.parsed = parseNpmSpecifier(roundTrip.text)]
  /\ UNCHANGED <<versionVars, cacheVars, importVars, resolver, dirs, jobs, rewrite>>

\* Lines 34-36 applied to what was parsed.
FormatParsed ==
  /\ roundTrip.pc = "parsed"
  /\ roundTrip' = [roundTrip EXCEPT !.pc = "formatted",
                                    !.formatted = formatNpmSpecifier(roundTrip.parsed)]
  /\ UNCHANGED <<versionVars, cacheVars, importVars, resolver, dirs, jobs, rewrite>>

\* ------------------------------------------------------ rewriteNpmImports

\* A source is a sequence of lines, and a line a sequence of segments: code, a
\* string literal in the source position of an import or export declaration, of
\* import() or of import.meta.resolve ("literal"), or any other string literal
\* ("string").  A literal has its quote and its value, code has its text.
Code(text) == [kind |-> "code", quote |-> "none", text |-> text]
Literal(quote, value) == [kind |-> "literal", quote |-> quote, text |-> value]
OtherString(quote, value) == [kind |-> "string", quote |-> quote, text |-> value]

\* The lines that the sources are made of.
SourceLines ==
  {<<Code("import {a} from "), Literal("single", "/npm/d3@7.8.5/+esm"), Code(";")>>,
   <<Code("export * from "), Literal("double", "./chunk.js"), Code(";")>>,
   <<Code("const cdn = "), OtherString("single", "/npm/d3@7.8.5/+esm"), Code(";")>>,
   <<Code("import.meta.resolve("), Literal("double", "/npm/d3@7.8.5/+esm"), Code(")")>>,
   <<Code("//# sourceMappingURL=/sm/0a1b.map")>>}

\* The number of lines of a source.
MaxLines == 3

Sources == UNION {[1..n -> SourceLines] : n \in 1..MaxLines}

\* The resolve functions: String, which is the default of line 39, and the function
\* that getDependencyResolver returns for a module of plot that resolved nothing.
Resolvers == {"String", "resolver"}

ApplyResolve(resolve, value) ==
  IF resolve = "String" THEN value
  ELSE ResolveSpecifier("/_npm/plot@1.0.0/+esm.js", <<>>, value)

\* The rewrite of every string literal, wherever it stands.
RewriteSegment_AnyString(segment, resolve) ==
  IF segment.kind \in {"literal", "string"} /\ ApplyResolve(resolve, segment.text) /= segment.text
  THEN [segment EXCEPT !.quote = "double", !.text = ApplyResolve(resolve, segment.text)]
  ELSE segment

\* Lines 51-66: a literal in a source position whose resolved value differs from its
\* value is replaced by JSON.stringify of the resolved value, which is the value in
\* double quotes (no value of the model has a character that is escaped); every
\* other segment stays.
RewriteSegment(segment, resolve) ==
  IF segment.kind = "literal" /\ ApplyResolve(resolve, segment.text) /= segment.text
  THEN [segment EXCEPT !.quote = "double", !.text = ApplyResolve(resolve, segment.text)]
  ELSE segment

\* Whether the regular expression of line 70 matches at the start of the line.
IsSourceMappingURL(line) ==
  /\ Len(line) > 0
  /\ line[1].kind = "code"
  /\ StartsWith(line[1].text, "//# sourceMappingURL=")

\* The first line from line i on that the regular expression matches, 0 if none.
RECURSIVE FirstSourceMappingURL(_, _)
FirstSourceMappingURL(lines, i) ==
  IF i > Len(lines) THEN 0
  ELSE IF IsSourceMappingURL(lines[i]) THEN i
  ELSE FirstSourceMappingURL(lines, i + 1)

\* Line 70: the first match of /^\/\/# sourceMappingURL=.*$\n?/m is replaced by
\* nothing: the line goes with its line terminator, and the last line of a source,
\* which has none, is left empty.
RemoveSourceMappingURL(lines) ==
  LET k == FirstSourceMappingURL(lines, 1)
  IN  IF k = 0 THEN lines
      ELSE IF k < Len(lines) THEN SubSeq(lines, 1, k - 1) \o SubSeq(lines, k + 1, Len(lines))
      ELSE SubSeq(lines, 1, k - 1) \o << <<>> >>

\* Lines 39-71.
rewriteNpmImports(input, resolve) ==
  RemoveSourceMappingURL(
    [i \in 1..Len(input) |->
       [j \in 1..Len(input[i]) |-> RewriteSegment(input[i][j], resolve)]])

\* rewriteNpmImports applied to the source.
RewriteSource ==
  /\ rewrite.pc = "input"
  /\ rewrite' = [rewrite EXCEPT !.pc = "output",
                                !.output = rewriteNpmImports(rewrite.input, rewrite.resolve)]
  /\ UNCHANGED <<versionVars, cacheVars, importVars, resolver, dirs, jobs, roundTrip>>

\* -------------------------------------------------------- specifications

InitVersionVars ==
  /\ npmVersionCache = "unset"
  /\ cache = [name \in VersionNames |-> <<>>]
  /\ npmVersionRequests = <<>>
  /\ versionPromises = <<>>
  /\ versionRequests = 0
  /\ versionCalls = [c \in VersionCallers |-> IdleVersionCall]
  /\ mkdirs = {}

InitImportVars ==
  /\ npmImportsCache = <<>>
  /\ importPromises = <<>>
  /\ importRequests = 0
  /\ importCalls = [c \in ImportCallers |-> IdleImportCall]

InitTextVars ==
  /\ roundTrip = IdleRoundTrip
  /\ rewrite = IdleRewrite

InitCacheVars ==
  /\ npmRequests = <<>>
  /\ cachePromises = <<>>
  /\ cacheRequests = 0
  /\ cacheCalls = [c \in CacheCallers |->
        [pc |-> "idle", root |-> Undefined, path |-> Undefined, promise |-> 0, result |-> NoResult]]

\* The version resolver alone: the disk holds some package directories and no call
\* to populateNpmCache is made.
InitVersion ==
  /\ InitVersionVars
  /\ InitCacheVars
  /\ InitImportVars
  /\ InitTextVars
  /\ files = <<>>
  /\ dirs \in SUBSET InitialDirs
  /\ jobs = <<>>
  /\ resolver = IdleResolver

\* The steps of the version resolver, with the calls made by `callers` with `ranges`.
VersionStep(callers, ranges) ==
  \/ \E c \in callers, name \in VersionNames, range \in ranges :
       resolveNpmVersion(c, name, range)
  \/ InitializeDone
  \/ \E c \in callers : ResumeWithCache(c)
  \/ \E p \in DOMAIN versionPromises : VersionResponse(p)
  \/ DeleteVersionRequest
  \/ ResumeWithVersion
  \/ \E c \in callers : VersionReturn(c)
  \/ MkdirDone

NextVersion == VersionStep(VersionCallers, VersionRanges)

SpecVersion == InitVersion /\ [][NextVersion]_vars

\* The cache store alone: the disk holds some complete files, each in its package
\* directory, and no call to resolveNpmVersion is made from outside.
InitCache ==
  /\ InitVersionVars
  /\ InitCacheVars
  /\ InitImportVars
  /\ InitTextVars
  /\ \E root \in Roots, present \in SUBSET InitialPaths :
       /\ files = [f \in {FilePath(root, path) : path \in present} |-> "complete"]
       /\ dirs = UNION {PackageDirs(path) : path \in present}
  /\ jobs = <<>>
  /\ resolver = IdleResolver

\* The steps of the cache store, with the calls made by `callers` with `paths`.
CacheStep(callers, paths) ==
  \/ \E c \in callers, root \in Roots, path \in paths : populateNpmCache(c, root, path)
  \/ \E p \in DOMAIN cachePromises : FetchResponse(p)
  \/ \E p \in DOMAIN cachePromises : CacheMkdirDone(p)
  \/ \E p \in DOMAIN cachePromises : BodyRead(p)
  \/ \E p \in DOMAIN cachePromises : ReadManifest(p)
  \/ \E p \in DOMAIN cachePromises : WriteOpen(p)
  \/ \E p \in DOMAIN cachePromises : WriteDone(p)
  \/ DeleteRequest
  \/ ResumeCacheCalls
  \/ \E c \in callers : CacheReturn(c)

NextCache == CacheStep(CacheCallers, CachePaths)

SpecCache == InitCache /\ [][NextCache]_vars

\* Both registries in one process, which starts with an empty cache directory: the
\* callers of populateNpmCache ask for the module, one caller of resolveNpmVersion
\* asks for a version of the second major.
InitRegistries ==
  /\ InitVersionVars
  /\ InitCacheVars
  /\ InitImportVars
  /\ InitTextVars
  /\ files = <<>>
  /\ dirs = {}
  /\ jobs = <<>>
  /\ resolver = IdleResolver

NextRegistries ==
  \/ CacheStep(CacheCallers, {"/_npm/d3@1.0.0/+esm.js"})
  \/ VersionStep({"v1"}, {"^2"})

SpecRegistries == InitRegistries /\ [][NextRegistries]_vars

\* The import graph: the callers of resolveNpmImports ask for the paths, whose
\* populateNpmCache calls are kept under the path, and a caller of populateNpmCache
\* asks for a path without the prefix.  The cache directory starts empty.
InitImports ==
  /\ InitVersionVars
  /\ InitImportVars
  /\ InitTextVars
  /\ npmRequests = <<>>
  /\ cachePromises = <<>>
  /\ cacheRequests = 0
  /\ cacheCalls = [c \in CacheCallers \cup ImportPaths |->
        [pc |-> "idle", root |-> Undefined, path |-> Undefined, promise |-> 0, result |-> NoResult]]
  /\ files = <<>>
  /\ dirs = {}
  /\ jobs = <<>>
  /\ resolver = IdleResolver

NextImports ==
  \/ \E c \in ImportCallers, root \in Roots, path \in ImportPaths : resolveNpmImports(c, root, path)
  \/ \E i \in DOMAIN importPromises : ImportsPopulated(i)
  \/ \E i \in DOMAIN importPromises : ImportsRead(i)
  \/ \E c \in ImportCallers : ImportsReturn(c)
  \/ \E c \in ImportCallers : ImportsCallEnd(c)
  \/ CacheStep({"p1"}, {"/npm/d3@1.0.0/+esm"})

SpecImports == InitImports /\ [][NextImports]_vars

\* The round trip of a specifier text through parseNpmSpecifier and formatNpmSpecifier.
InitSpecifier ==
  /\ InitVersionVars
  /\ InitCacheVars
  /\ InitImportVars
  /\ files = <<>>
  /\ dirs = {}
  /\ jobs = <<>>
  /\ resolver = IdleResolver
  /\ rewrite = IdleRewrite
  /\ \E name \in SpecifierNames, range \in SpecifierRanges, path \in SpecifierPaths :
       roundTrip = [pc |-> "text", name |-> name, range |-> range, path |-> path,
                    text |-> SpecifierText(name, range, path),
                    parsed |-> [name |-> Undefined, range |-> Undefined, path |-> Undefined],
                    formatted |-> Undefined]

NextSpecifier ==
  \/ ParseText
  \/ FormatParsed

SpecSpecifier == InitSpecifier /\ [][NextSpecifier]_vars

\* rewriteNpmImports applied to a source of up to MaxLines lines.
InitRewrite ==
  /\ InitVersionVars
  /\ InitCacheVars
  /\ InitImportVars
  /\ files = <<>>
  /\ dirs = {}
  /\ jobs = <<>>
  /\ resolver = IdleResolver
  /\ roundTrip = IdleRoundTrip
  /\ \E input \in Sources, resolve \in Resolvers :
       rewrite = [pc |-> "input", input |-> input, resolve |-> resolve, output |-> <<>>]

NextRewrite == RewriteSource

SpecRewrite == InitRewrite /\ [][NextRewrite]_vars

\* The cache store with every network request and every filesystem operation
\* completing.  A call may start a fetch of its own and one of the manifest, and
\* calls from outside are made while both can still be counted.
TerminationPaths == {"/_npm/d3@1.0.0/+esm.js", "/_npm/d3@1.0.0/package.json"}

NextTermination ==
  \/ \E c \in CacheCallers, root \in Roots, path \in TerminationPaths :
       /\ cacheRequests + 2 <= MaxCacheRequests
       /\ populateNpmCache(c, root, path)
  \/ \E p \in DOMAIN cachePromises : FetchResponse(p)
  \/ \E p \in DOMAIN cachePromises : CacheMkdirDone(p)
  \/ \E p \in DOMAIN cachePromises : BodyRead(p)
  \/ \E p \in DOMAIN cachePromises : ReadManifest(p)
  \/ \E p \in DOMAIN cachePromises : WriteOpen(p)
  \/ \E p \in DOMAIN cachePromises : WriteDone(p)
  \/ DeleteRequest
  \/ ResumeCacheCalls
  \/ \E c \in CacheCallers : CacheReturn(c)

\* What the network, the filesystem and the event loop do once it is their turn: a
\* response arrives, a filesystem operation completes, getDependencyResolver goes on
\* after an await, a reaction that is due runs.
Completion ==
  /\ WF_vars(\E p \in DOMAIN cachePromises : FetchResponse(p))
  /\ WF_vars(\E p \in DOMAIN cachePromises : CacheMkdirDone(p))
  /\ WF_vars(\E p \in DOMAIN cachePromises : BodyRead(p))
  /\ WF_vars(\E p \in DOMAIN cachePromises : ReadManifest(p))
  /\ WF_vars(\E p \in DOMAIN cachePromises : WriteOpen(p))
  /\ WF_vars(\E p \in DOMAIN cachePromises : WriteDone(p))
  /\ WF_vars(DeleteRequest)
  /\ WF_vars(ResumeCacheCalls)

SpecTermination == InitCache /\ [][NextTermination]_vars /\ Completion

\* One getDependencyResolver call for a module with at most two literals, and the
\* uses of the function it returns.
InitResolver ==
  /\ InitVersionVars
  /\ InitCacheVars
  /\ InitImportVars
  /\ InitTextVars
  /\ files = <<>>
  /\ dirs \in SUBSET ResolverDirs
  /\ jobs = <<>>
  /\ \E path \in ModulePaths, imports \in SUBSET ImportValues :
       /\ Cardinality(imports) <= MaxImports
       /\ resolver = [IdleResolver EXCEPT !.pc = "start", !.path = path, !.imports = imports]

NextResolver ==
  \/ CollectDependencies
  \/ ManifestLoaded
  \/ ResolveDependency
  \/ ApplyResolver

SpecResolver == InitResolver /\ [][NextResolver]_vars

\* ------------------------------------------------------------ properties

Elements(list) == {list[i] : i \in 1..Len(list)}

SatisfiesOrAbsent(version, range) == ~Truthy(range) \/ satisfies(version, range)

\* A text of the form digits.digits.digits: an exact semantic version without tags.
ExactSemver(text) ==
  LET p == Split(text, ".")
  IN  /\ Len(p) = 3
      /\ \A i \in 1..3 : Len(p[i]) > 0 /\ SkipDigits(p[i], 1) = Len(p[i]) + 1

\* The highest version of a set that satisfies the range, in semver order.
HighestSatisfying(set, range) ==
  CHOOSE v \in set :
    /\ SatisfiesOrAbsent(v, range)
    /\ \A w \in set : SatisfiesOrAbsent(w, range) => (w = v \/ VersionGt(v, w))

\* C1: a pending fetch is the one registered for its path, so no path has two
\* fetches pending; a call for a path whose file is absent and whose fetch is pending
\* starts no fetch and waits for the pending one; every call that waits, waits for a
\* fetch of its own path, and ends with exactly the result of that fetch.
C1_OneFetchPerPath ==
  /\ [](/\ \A p \in DOMAIN cachePromises :
             cachePromises[p].result.state = "none"
               => /\ cachePromises[p].path \in DOMAIN npmRequests
                  /\ npmRequests[cachePromises[p].path] = p
        /\ \A c \in CacheCallers :
             cacheCalls[c].pc = "await"
               => /\ cacheCalls[c].promise \in DOMAIN cachePromises
                  /\ cachePromises[cacheCalls[c].promise].path = cacheCalls[c].path)
  /\ [][\A c \in CacheCallers :
          (/\ cacheCalls[c].pc = "idle"
           /\ cacheCalls'[c].pc /= "idle"
           /\ FilePath(cacheCalls'[c].root, cacheCalls'[c].path) \notin DOMAIN files
           /\ \E p \in DOMAIN cachePromises :
                cachePromises[p].path = cacheCalls'[c].path /\ cachePromises[p].result.state = "none")
            => /\ cacheRequests' = cacheRequests
               /\ cacheCalls'[c].pc = "await"
               /\ cacheCalls'[c].promise \in DOMAIN cachePromises
               /\ cachePromises[cacheCalls'[c].promise].path = cacheCalls'[c].path
               /\ cachePromises[cacheCalls'[c].promise].result.state = "none"]_vars
  /\ [][\A c \in CacheCallers :
          (cacheCalls[c].pc = "await" /\ cacheCalls'[c].pc /= "await")
            => /\ cacheCalls'[c].pc = "done"
               /\ cachePromises[cacheCalls[c].promise].result.state /= "none"
               /\ cacheCalls'[c].result = cachePromises[cacheCalls[c].promise].result]_vars

\* C1's case: two calls for the same path wait for the one fetch that was started.
C1_Witness ==
  \E c1, c2 \in CacheCallers :
    /\ c1 /= c2
    /\ cacheCalls[c1].pc = "await"
    /\ cacheCalls[c2].pc = "await"
    /\ cacheCalls[c1].path = cacheCalls[c2].path
    /\ cacheCalls[c1].promise = cacheCalls[c2].promise
    /\ cacheCalls[c1].promise \in DOMAIN cachePromises
    /\ cachePromises[cacheCalls[c1].promise].result.state = "none"
    /\ cacheRequests = 1

RegistryJobDue(kind, key, p) ==
  \E i \in 1..Len(jobs) : jobs[i].kind = kind /\ jobs[i].key = key /\ jobs[i].promise = p

\* C3: in both registries an entry is that of a pending operation or of one that has
\* just settled and whose clean-up is due before anything else runs, so with no
\* operation outstanding both registries are empty; and a call for a key with no
\* pending operation (as after a failure) starts a fresh request: a populateNpmCache
\* call whose file is absent, a resolveNpmVersion call that misses the index.
C3_EntriesRemovedOnSettle ==
  /\ [](/\ \A path \in DOMAIN npmRequests :
             \/ /\ npmRequests[path] \in DOMAIN cachePromises
                /\ cachePromises[npmRequests[path]].result.state = "none"
             \/ RegistryJobDue("deleteRequest", path, npmRequests[path])
        /\ \A href \in DOMAIN npmVersionRequests :
             \/ /\ npmVersionRequests[href] \in DOMAIN versionPromises
                /\ versionPromises[npmVersionRequests[href]].result.state = "none"
             \/ RegistryJobDue("deleteVersionRequest", href, npmVersionRequests[href])
        /\ (/\ jobs = <<>>
            /\ \A p \in DOMAIN cachePromises : cachePromises[p].result.state /= "none"
            /\ \A p \in DOMAIN versionPromises : versionPromises[p].result.state /= "none")
             => (DOMAIN npmRequests = {} /\ DOMAIN npmVersionRequests = {}))
  /\ [][\A c \in CacheCallers :
          (/\ cacheCalls[c].pc = "idle"
           /\ cacheCalls'[c].pc /= "idle"
           /\ StartsWith(cacheCalls'[c].path, "/_npm/")
           /\ FilePath(cacheCalls'[c].root, cacheCalls'[c].path) \notin DOMAIN files
           /\ ~\E p \in DOMAIN cachePromises :
                cachePromises[p].path = cacheCalls'[c].path /\ cachePromises[p].result.state = "none")
            => /\ cacheRequests' = cacheRequests + 1
               /\ cacheCalls'[c].pc = "await"
               /\ cacheCalls'[c].promise = cacheRequests'
               /\ cachePromises'[cacheRequests'].pc = "fetch"
               /\ cachePromises'[cacheRequests'].result = NoResult]_vars
  /\ [][\A c \in VersionCallers :
          (/\ versionCalls[c].pc = "awaitCache"
           /\ versionCalls'[c].pc /= "awaitCache"
           /\ npmVersionCache = "fulfilled"
           /\ ~\E v \in Elements(cache[versionCalls[c].name]) :
                SatisfiesOrAbsent(v, versionCalls[c].range)
           /\ ~\E p \in DOMAIN versionPromises :
                /\ versionPromises[p].href = VersionHref(versionCalls[c].name, versionCalls[c].range)
                /\ versionPromises[p].result.state = "none")
            => /\ versionRequests' = versionRequests + 1
               /\ versionCalls'[c].pc = "awaitRequest"
               /\ versionCalls'[c].promise = versionRequests'
               /\ versionPromises'[versionRequests'].result = NoResult]_vars

\* C3's case: a call has the failure of a fetch of a path while another call waits
\* for a later fetch of the same path; and the second lookup of the range is pending
\* after the first one failed (it left nothing in the index).
C3_Witness ==
  /\ \E c1, c2 \in CacheCallers :
       /\ cacheCalls[c1].pc = "done"
       /\ cacheCalls[c1].result.state = "rejected"
       /\ cacheCalls[c1].promise > 0
       /\ cacheCalls[c2].pc = "await"
       /\ cacheCalls[c2].path = cacheCalls[c1].path
       /\ cacheCalls[c2].promise > cacheCalls[c1].promise
       /\ cachePromises[cacheCalls[c2].promise].result.state = "none"
  /\ versionRequests = 2
  /\ 2 \in DOMAIN versionPromises
  /\ versionPromises[2].result.state = "none"
  /\ cache["d3"] = <<>>
  /\ versionCalls["v1"].promise = 2

\* C7: a call for a path with the prefix whose file is on disk returns the file path
\* join(root, ".observablehq", "cache", path) in the same step, and starts no fetch,
\* registers nothing and writes nothing.
C7_PresentFileReturned ==
  [][\A c \in CacheCallers :
       (/\ cacheCalls[c].pc = "idle"
        /\ cacheCalls'[c].pc /= "idle"
        /\ StartsWith(cacheCalls'[c].path, "/_npm/")
        /\ FilePath(cacheCalls'[c].root, cacheCalls'[c].path) \in DOMAIN files)
         => /\ cacheCalls'[c].pc = "done"
            /\ cacheCalls'[c].result =
                 Fulfilled(cacheCalls'[c].root \o "/.observablehq/cache" \o cacheCalls'[c].path)
            /\ UNCHANGED <<npmRequests, cachePromises, cacheRequests, files, dirs, jobs>>]_vars

\* C7's case: two calls for a file that is on disk have returned its path, and no
\* fetch was ever started.
C7_Witness ==
  \E c1, c2 \in CacheCallers :
    /\ c1 /= c2
    /\ cacheCalls[c1].pc = "done"
    /\ cacheCalls[c2].pc = "done"
    /\ cacheCalls[c1].result.state = "fulfilled"
    /\ cacheCalls[c1].result = cacheCalls[c2].result
    /\ cacheCalls[c1].result.value \in DOMAIN files
    /\ cacheRequests = 0

\* C2: a version that has once been in the index list of a name is in the list in
\* every later state: no step removes a version from the list of any name.
C2_IndexNeverShrinks ==
  [][\A name \in VersionNames : Elements(cache[name]) \subseteq Elements(cache'[name])]_vars

\* C4: calls for the same (name, range) that miss the index share one remote lookup:
\* a pending lookup is the one registered for its href, so no href has two pending
\* lookups; every call that waits for a lookup waits for one of its own href; and a
\* call that waited ends with exactly the result of the lookup it waited for.
C4_OneLookupPerPair ==
  /\ [](/\ \A p \in DOMAIN versionPromises :
             versionPromises[p].result.state = "none"
               => /\ versionPromises[p].href \in DOMAIN npmVersionRequests
                  /\ npmVersionRequests[versionPromises[p].href] = p
        /\ \A c \in VersionCallers :
             versionCalls[c].pc = "awaitRequest"
               => /\ versionCalls[c].promise \in DOMAIN versionPromises
                  /\ versionPromises[versionCalls[c].promise].href
                       = VersionHref(versionCalls[c].name, versionCalls[c].range))
  /\ [][\A c \in VersionCallers :
          (versionCalls[c].pc = "awaitRequest" /\ versionCalls'[c].pc /= "awaitRequest")
            => /\ versionCalls'[c].pc = "done"
               /\ versionPromises[versionCalls[c].promise].result.state /= "none"
               /\ versionCalls'[c].result = versionPromises[versionCalls[c].promise].result]_vars

\* C4's case: two calls wait for the same pending lookup.
C4_Witness ==
  \E c1, c2 \in VersionCallers :
    /\ c1 /= c2
    /\ versionCalls[c1].pc = "awaitRequest"
    /\ versionCalls[c2].pc = "awaitRequest"
    /\ versionCalls[c1].promise = versionCalls[c2].promise
    /\ versionCalls[c1].promise \in DOMAIN versionPromises
    /\ versionPromises[versionCalls[c1].promise].result.state = "none"
    /\ versionRequests = 1

IndexSorted ==
  \A name \in VersionNames :
    \A i, j \in 1..Len(cache[name]) : i < j => ~VersionGt(cache[name][j], cache[name][i])

\* C5: a call that resumes while the index holds a version satisfying its range
\* returns the highest such version, starts no remote lookup and registers nothing;
\* and the list of every name is sorted descending in every reachable state.
C5_IndexHit ==
  /\ []IndexSorted
  /\ [][\A c \in VersionCallers :
          (/\ versionCalls[c].pc = "awaitCache"
           /\ versionCalls'[c].pc /= "awaitCache"
           /\ npmVersionCache = "fulfilled"
           /\ \E v \in Elements(cache[versionCalls[c].name]) :
                SatisfiesOrAbsent(v, versionCalls[c].range))
            => /\ versionCalls'[c].pc = "done"
               /\ versionCalls'[c].result =
                    Fulfilled(HighestSatisfying(Elements(cache[versionCalls[c].name]),
                                                versionCalls[c].range))
               /\ UNCHANGED <<npmVersionRequests, versionPromises, versionRequests>>]_vars

\* C5's case: a call was answered from an index of several versions with a version
\* that is not the newest of the list.
C5_Witness ==
  \E c \in VersionCallers :
    /\ versionCalls[c].pc = "done"
    /\ versionCalls[c].promise = 0
    /\ Len(versionCalls[c].versions) >= 2
    /\ versionCalls[c].result.state = "fulfilled"
    /\ versionCalls[c].result.value /= versionCalls[c].versions[1]
    /\ versionRequests > 0

\* C6: a call whose range is an exact semantic version returns the range in the same
\* step and changes nothing else: the index promise, the index, the registry, the
\* lookups, the disk and the job queue are as before.
C6_ExactVersionFrame ==
  [][\A c \in VersionCallers :
       (/\ versionCalls[c].pc = "idle"
        /\ versionCalls'[c].pc /= "idle"
        /\ ExactSemver(versionCalls'[c].range))
         => /\ versionCalls'[c].pc = "done"
            /\ versionCalls'[c].result = Fulfilled(versionCalls'[c].range)
            /\ UNCHANGED <<npmVersionCache, cache, npmVersionRequests, versionPromises,
                           versionRequests, dirs, mkdirs, jobs>>]_vars

\* C6's case: a call with an exact version has returned it and the index was never asked for.
C6_Witness ==
  \E c \in VersionCallers :
    /\ versionCalls[c].pc = "done"
    /\ ExactSemver(versionCalls[c].range)
    /\ versionCalls[c].result = Fulfilled(versionCalls[c].range)
    /\ npmVersionCache = "unset"

\* C9 as claimed: two answered requests for the same name whose ranges are both
\* satisfied by one version of the index have the same answer.
C9_ConvergeOnAnyKnownVersion ==
  \A c1, c2 \in VersionCallers :
    (/\ versionCalls[c1].pc = "done"
     /\ versionCalls[c2].pc = "done"
     /\ versionCalls[c1].result.state = "fulfilled"
     /\ versionCalls[c2].result.state = "fulfilled"
     /\ versionCalls[c1].name = versionCalls[c2].name
     /\ \E v \in Elements(cache[versionCalls[c1].name]) :
          /\ SatisfiesOrAbsent(v, versionCalls[c1].range)
          /\ SatisfiesOrAbsent(v, versionCalls[c2].range))
      => versionCalls[c1].result = versionCalls[c2].result

\* C9 amended: two answered requests for the same name that read an index with the
\* same newest version, which satisfies both ranges, both have that version as answer.
C9_ConvergeOnNewestKnownVersion ==
  \A c1, c2 \in VersionCallers :
    (/\ versionCalls[c1].pc = "done"
     /\ versionCalls[c2].pc = "done"
     /\ versionCalls[c1].name = versionCalls[c2].name
     /\ Len(versionCalls[c1].versions) > 0
     /\ Len(versionCalls[c2].versions) > 0
     /\ versionCalls[c1].versions[1] = versionCalls[c2].versions[1]
     /\ SatisfiesOrAbsent(versionCalls[c1].versions[1], versionCalls[c1].range)
     /\ SatisfiesOrAbsent(versionCalls[c1].versions[1], versionCalls[c2].range))
      => /\ versionCalls[c1].result = Fulfilled(versionCalls[c1].versions[1])
         /\ versionCalls[c2].result = Fulfilled(versionCalls[c1].versions[1])

\* C9's case: requests with different ranges were answered with the same version, the
\* newest of an index that holds an older one too.
C9_Witness ==
  \E c1, c2 \in VersionCallers :
    /\ versionCalls[c1].pc = "done"
    /\ versionCalls[c2].pc = "done"
    /\ versionCalls[c1].range /= versionCalls[c2].range
    /\ Len(versionCalls[c1].versions) >= 2
    /\ Len(versionCalls[c2].versions) >= 2
    /\ versionCalls[c1].versions[1] = versionCalls[c2].versions[1]
    /\ versionCalls[c1].result = Fulfilled(versionCalls[c1].versions[1])
    /\ versionCalls[c2].result = versionCalls[c1].result

\* Whether a cache path has an exact version after the package name.
CarriesExactVersion(path) ==
  LET spec == parseNpmSpecifier(resolveNpmSpecifier(path))
  IN  StartsWith(path, "/_npm/") /\ spec.range /= Undefined /\ ExactSemver(spec.range)

\* C8: every cache path the resolver produces carries an exact version after the
\* package name: the paths resolveNpmImport returned, which are the values of the
\* resolution map, and every target that the returned function puts in the place
\* of a /npm/ specifier, from the map or from the prefix-swap fallback.
C8_CachePathsCarryExactVersion ==
  /\ \A dependency \in DOMAIN resolver.resolutions :
       CarriesExactVersion(resolver.resolutions[dependency])
  /\ \A specifier \in DOMAIN resolver.resolved :
       StartsWith(specifier, "/npm/") => CarriesExactVersion(resolver.resolved[specifier].target)

\* The designated override pairs and their fixed ranges.
OverrideRange(consumer, depName) ==
  CASE consumer = "arquero" /\ depName = "apache-arrow" -> "latest"
    [] consumer = "@uwdata/mosaic-core" /\ depName = "apache-arrow" -> "latest"
    [] consumer = "@duckdb/duckdb-wasm" /\ depName = "apache-arrow" -> "latest"
    [] consumer = "@uwdata/mosaic-core" /\ depName = "@duckdb/duckdb-wasm" -> "1.28.0"
    [] OTHER -> Undefined

\* C10: a dependency of a designated override pair is resolved with the fixed
\* override range, whatever the manifest of the consumer declares for it in
\* dependencies, devDependencies or peerDependencies, and also when it declares
\* nothing: the specifier handed to resolveNpmImport carries the override range,
\* and once the loop is over every such dependency has been handed over.
C10_OverrideRangeUsed ==
  \A dependency \in resolver.dependencies :
    LET consumer == parseNpmSpecifier(resolveNpmSpecifier(resolver.path)).name
        depName == parseNpmSpecifier(SliceFrom(dependency, 5)).name
    IN  OverrideRange(consumer, depName) /= Undefined =>
          /\ dependency \in DOMAIN resolver.requested =>
               parseNpmSpecifier(resolver.requested[dependency]).range
                 = OverrideRange(consumer, depName)
          /\ resolver.pc = "ready" => dependency \in DOMAIN resolver.requested

\* arquero's manifest declares ^11.0.0 for apache-arrow, and apache-arrow has been
\* resolved for arquero with "latest".
C10_Witness ==
  /\ resolver.pc = "ready"
  /\ resolver.path = "/_npm/arquero@5.0.0/+esm.js"
  /\ "apache-arrow" \in DOMAIN resolver.pkg.dependencies
  /\ "/npm/apache-arrow@12.0.0/+esm" \in DOMAIN resolver.resolutions
  /\ resolver.requested["/npm/apache-arrow@12.0.0/+esm"] = "apache-arrow@latest/+esm"

\* Whether the value of a literal is a /npm/ specifier of the package that the
\* module at the cache path is in.
SelfReference(path, value) ==
  /\ StartsWith(value, "/npm/")
  /\ parseNpmSpecifier(SliceFrom(value, 5)).name
       = parseNpmSpecifier(resolveNpmSpecifier(path)).name

\* C13: a /npm/ specifier with the module's own package name is never in the
\* dependency set, is never handed to resolveNpmImport and never has an entry in the
\* resolution map; and a module whose /npm/ specifiers are all self-references never
\* loads its manifest.
C13_SelfReferenceExcluded ==
  /\ \A value \in resolver.imports :
       SelfReference(resolver.path, value) =>
         /\ value \notin resolver.dependencies
         /\ value \notin DOMAIN resolver.requested
         /\ value \notin DOMAIN resolver.resolutions
  /\ (\A value \in resolver.imports :
        StartsWith(value, "/npm/") => SelfReference(resolver.path, value))
       => /\ resolver.pc \notin {"manifest", "resolving"}
          /\ resolver.pkg = NoManifest

\* C13's case: arquero imports a file of arquero and nothing else; the resolver is
\* ready without a manifest, and the specifier was rewritten by the fallback.
C13_Witness ==
  /\ resolver.pc = "ready"
  /\ resolver.path = "/_npm/arquero@5.0.0/+esm.js"
  /\ resolver.imports = {"/npm/arquero@5.0.0/dist/x.js"}
  /\ resolver.dependencies = {}
  /\ "/npm/arquero@5.0.0/dist/x.js" \in DOMAIN resolver.resolved
  /\ resolver.resolved["/npm/arquero@5.0.0/dist/x.js"].target = "/_npm/arquero@5.0.0/dist/x.js"

\* Whether neither the override table nor a section of the manifest has a range for
\* the dependency of the module at the cache path.
NoRangeFor(path, pkg, dependency) ==
  LET depName == parseNpmSpecifier(SliceFrom(dependency, 5)).name
  IN  /\ OverrideRange(parseNpmSpecifier(resolveNpmSpecifier(path)).name, depName) = Undefined
      /\ depName \notin DOMAIN pkg.dependencies
      /\ depName \notin DOMAIN pkg.devDependencies
      /\ depName \notin DOMAIN pkg.peerDependencies

\* C19 as claimed: a dependency without a range is left unresolved, and the
\* returned function answers the specifier itself for it.
C19_UnresolvedPassesThroughUnchanged ==
  \A dependency \in resolver.dependencies :
    (resolver.pc = "ready" /\ NoRangeFor(resolver.path, resolver.pkg, dependency)) =>
      /\ dependency \notin DOMAIN resolver.requested
      /\ dependency \notin DOMAIN resolver.resolutions
      /\ dependency \in DOMAIN resolver.resolved =>
           resolver.resolved[dependency].result = dependency

\* C19 amended: a dependency without a range is left unresolved (it is not handed to
\* resolveNpmImport and has no entry in the resolution map), and the returned
\* function rewrites it without resolving anything: what follows /npm/ is kept as it
\* is behind /_npm/, with .js after a trailing /+esm, and the result is that cache
\* path relative to the module.
C19_UnresolvedRewrittenByPrefixSwap ==
  \A dependency \in resolver.dependencies :
    (resolver.pc = "ready" /\ NoRangeFor(resolver.path, resolver.pkg, dependency)) =>
      /\ dependency \notin DOMAIN resolver.requested
      /\ dependency \notin DOMAIN resolver.resolutions
      /\ dependency \in DOMAIN resolver.resolved =>
           LET kept == Sub(dependency, 6, Len(dependency))
               target == "/_npm/" \o kept
                           \o (IF Sub(dependency, Len(dependency) - 4, Len(dependency)) = "/+esm"
                               THEN ".js" ELSE "")
           IN  /\ resolver.resolved[dependency].target = target
               /\ resolver.resolved[dependency].result = relativePath(resolver.path, target)

\* C19's case: d3 imports apache-arrow@12.0.0, its manifest was read and declares
\* nothing for apache-arrow, and the specifier was rewritten to the sibling directory.
C19_Witness ==
  /\ resolver.pc = "ready"
  /\ resolver.path = "/_npm/d3@1.0.0/+esm.js"
  /\ "/npm/apache-arrow@12.0.0/+esm" \in resolver.dependencies
  /\ NoRangeFor(resolver.path, resolver.pkg, "/npm/apache-arrow@12.0.0/+esm")
  /\ "/npm/apache-arrow@12.0.0/+esm" \in DOMAIN resolver.resolved
  /\ resolver.resolved["/npm/apache-arrow@12.0.0/+esm"].result = "../apache-arrow@12.0.0/+esm.js"

\* C16: a populateNpmCache call has a file path as its answer only if the file at
\* that path holds its complete content.
C16_OnlyCompleteFilesReturned ==
  \A c \in CacheCallers :
    (cacheCalls[c].pc = "done" /\ cacheCalls[c].result.state = "fulfilled") =>
      /\ cacheCalls[c].result.value \in DOMAIN files
      /\ files[cacheCalls[c].result.value] = "complete"

\* The positions of an inner promise of populateNpmCache from which it rejects
\* because the response is unsuccessful, the source does not parse or the
\* dependencies cannot be resolved (the manifest cannot be populated, read or parsed,
\* a version cannot be resolved): all positions before writeFile is called.
BeforeWrite == {"fetch", "body", "awaitManifest", "readManifest", "resolveImports"}

\* C17: when the inner promise of a path rejects before writeFile is called, the
\* promise is settled with the error and no file of the path is on disk after the
\* step; and a caller that has such an error has no file at its path as long as no
\* later call populates it.
C17_NoFileAfterFailure ==
  [][\A p \in DOMAIN cachePromises :
       (/\ cachePromises[p].pc \in BeforeWrite
        /\ p \in DOMAIN cachePromises'
        /\ cachePromises'[p].result.state = "rejected")
         => /\ cachePromises'[p].pc = "settled"
            /\ FilePath(cachePromises[p].root, cachePromises[p].path) \notin DOMAIN files'
            /\ FilePath(cachePromises[p].root, cachePromises[p].path) \notin DOMAIN files]_vars

\* C17's case: the manifest of d3 was fetched and written, a version of a dependency
\* could not be resolved, the caller has that error, and the module has no file.
C17_Witness ==
  \E c \in CacheCallers :
    /\ cacheCalls[c].pc = "done"
    /\ cacheCalls[c].path = "/_npm/d3@1.0.0/+esm.js"
    /\ cacheCalls[c].result = Rejected("unable to resolve version")
    /\ FilePath(cacheCalls[c].root, cacheCalls[c].path) \notin DOMAIN files
    /\ FilePath(cacheCalls[c].root, "/_npm/d3@1.0.0/package.json") \in DOMAIN files
    /\ cacheRequests = 2

\* C20: every populateNpmCache call that waits for a fetch eventually has its answer,
\* a path or an error.
C20_EveryCallSettles ==
  \A c \in CacheCallers : (cacheCalls[c].pc = "await") ~> (cacheCalls[c].pc = "done")

\* C11: a populateNpmCache call and a resolveNpmImports call with a path without the
\* prefix /_npm/ end with an error in the step of the call, and that step leaves the
\* registry, the memo, the promises, the counts of fetches started and the disk as
\* they were.
C11_InvalidPathRejectedAtOnce ==
  /\ [][\A c \in CacheCallers :
          (/\ cacheCalls[c].pc = "idle"
           /\ cacheCalls'[c].pc /= "idle"
           /\ ~StartsWith(cacheCalls'[c].path, "/_npm/"))
            => /\ cacheCalls'[c].pc = "done"
               /\ cacheCalls'[c].result.state = "rejected"
               /\ UNCHANGED <<npmRequests, cachePromises, cacheRequests, files, dirs, jobs,
                              npmImportsCache, importPromises, importRequests>>]_vars
  /\ [][\A c \in ImportCallers :
          (/\ importCalls[c].pc = "idle"
           /\ importCalls'[c].pc /= "idle"
           /\ ~StartsWith(importCalls'[c].path, "/_npm/"))
            => /\ importCalls'[c].pc = "done"
               /\ importCalls'[c].result.state = "rejected"
               /\ UNCHANGED <<npmRequests, cachePromises, cacheRequests, cacheCalls, files, dirs,
                              jobs, npmImportsCache, importPromises, importRequests>>]_vars

\* C11's case: both calls have the error for the path without the prefix, and
\* nothing was started, registered or written.
C11_Witness ==
  /\ cacheCalls["p1"].pc = "done"
  /\ cacheCalls["p1"].result = Rejected("invalid npm path: /npm/d3@1.0.0/+esm")
  /\ importCalls["r1"].pc = "done"
  /\ importCalls["r1"].result = Rejected("invalid npm path: /npm/d3@1.0.0/+esm")
  /\ cacheRequests = 0
  /\ importRequests = 0
  /\ npmRequests = <<>>
  /\ npmImportsCache = <<>>
  /\ files = <<>>

\* C12: no promise of resolveNpmImports rejects and no call for a path with the
\* prefix has an error; a promise whose populateNpmCache call failed, whose file
\* could not be read or whose source did not parse is fulfilled with the empty list.
C12_ImportsNeverFail ==
  /\ \A i \in DOMAIN importPromises :
       /\ importPromises[i].result.state /= "rejected"
       /\ (/\ importPromises[i].pc = "settled"
           /\ \/ cacheCalls[importPromises[i].path].result.state = "rejected"
              \/ importPromises[i].failure /= "none")
            => importPromises[i].result = Fulfilled(<<>>)
  /\ \A c \in ImportCallers :
       (importCalls[c].pc = "done" /\ StartsWith(importCalls[c].path, "/_npm/"))
         => importCalls[c].result.state = "fulfilled"

\* C12's case: one call has the empty list after a fetch that failed, another has it
\* after a source that did not parse.
C12_Witness ==
  \E c1, c2 \in ImportCallers :
    /\ importCalls[c1].pc = "done"
    /\ importCalls[c2].pc = "done"
    /\ importCalls[c1].promise \in DOMAIN importPromises
    /\ importCalls[c2].promise \in DOMAIN importPromises
    /\ importCalls[c1].result = Fulfilled(<<>>)
    /\ importCalls[c2].result = Fulfilled(<<>>)
    /\ importPromises[importCalls[c1].promise].failure = "populate"
    /\ cacheCalls[importCalls[c1].path].result.state = "rejected"
    /\ importPromises[importCalls[c2].promise].failure = "parse"

\* C18: the memo only grows and keeps the promise it has for a path; a promise is
\* started for a path only when the memo has none for it, so no two promises have
\* the same path; the result of a settled promise never changes; and every call for a
\* path the memo has waits for, and is answered with the result of, the promise of
\* the memo.
C18_MemoPermanent ==
  /\ [][/\ \A path \in DOMAIN npmImportsCache :
             /\ path \in DOMAIN npmImportsCache'
             /\ npmImportsCache'[path] = npmImportsCache[path]
        /\ \A i \in DOMAIN importPromises :
             /\ i \in DOMAIN importPromises'
             /\ importPromises[i].pc = "settled" => importPromises'[i] = importPromises[i]
        /\ \A i \in DOMAIN importPromises' \ DOMAIN importPromises :
             /\ importPromises'[i].path \notin DOMAIN npmImportsCache
             /\ npmImportsCache'[importPromises'[i].path] = i]_vars
  /\ [](/\ \A i, j \in DOMAIN importPromises :
             importPromises[i].path = importPromises[j].path => i = j
        /\ \A c \in ImportCallers :
             (importCalls[c].pc /= "idle" /\ StartsWith(importCalls[c].path, "/_npm/"))
               => /\ importCalls[c].path \in DOMAIN npmImportsCache
                  /\ importCalls[c].promise = npmImportsCache[importCalls[c].path]
                  /\ importCalls[c].pc = "done" =>
                       importCalls[c].result = importPromises[importCalls[c].promise].result)

\* C18's case: the one attempt for the module failed and has settled, its fetch is
\* no longer registered, and both callers have the empty list of that attempt: no
\* second attempt was started.
C18_Witness ==
  /\ importRequests = 1
  /\ cacheRequests = 1
  /\ importPromises[1].path = "/_npm/d3@1.0.0/+esm.js"
  /\ importPromises[1].failure = "populate"
  /\ importCalls["r1"].pc = "done"
  /\ importCalls["r2"].pc = "done"
  /\ importCalls["r1"].path = "/_npm/d3@1.0.0/+esm.js"
  /\ importCalls["r2"].path = "/_npm/d3@1.0.0/+esm.js"
  /\ importCalls["r1"].result = Fulfilled(<<>>)
  /\ importCalls["r2"].result = Fulfilled(<<>>)
  /\ "/_npm/d3@1.0.0/+esm.js" \notin DOMAIN npmRequests

SameButResolved(before, after, resolve) ==
  /\ Len(after) = Len(before)
  /\ \A j \in 1..Len(before) :
       \/ after[j] = before[j]
       \/ /\ before[j].kind = "literal"
          /\ ApplyResolve(resolve, before[j].text) /= before[j].text

MarkerLines(input) ==
  {i \in 1..Len(input) :
     /\ Len(input[i]) > 0
     /\ input[i][1].kind = "code"
     /\ Sub(input[i][1].text, 1, 21) = "//# sourceMappingURL="}

====
